# A model of the Haal Centraal proxy

The proxy stands between the applications of the municipality of Amsterdam and
the national registry of persons (Haal Centraal BRP). It checks what a user may
ask, fills in what the user did not say, passes the request on, takes out of the
answer what the user may not see, and writes an audit record of every access.
This directory holds TLA+ modules for the parts of it in which that can go
wrong, configurations that check them with TLC, and proofs checked by TLAPS.

Paths below are relative to `src/src/haal_centraal_proxy/bevragingen/`.

## The system

| Component | State | Operations | Talks to |
|---|---|---|---|
| Proxy view, `views/base.py` | per request: `request.data`, `hc_request`, the scopes of the token, the client | `initial` (permissions), `post`: decrypt, validate, transform request, call, transform answer, log, encrypt | all components below |
| Parameter policy, `permissions.py` | none (class constants) | `validate_parameters`, `validate_values`, `get_allowed_values`, two DRF permissions | called by the views, writes the audit log |
| Persons view, `views/personen.py` | per request: `inserted_id_fields` | the hooks of `post` and the rulesets | field sets |
| Occupancy view, `views/bewoningen.py` | none | ruleset, audit records, null values | |
| Residence history view, `views/verblijfplaatshistorie.py` | none | ruleset, null values by type of residence | |
| Encryption, `encryption.py` | the list of keys in the settings, changed by a deployment | `encrypt`, `decrypt` | called by the views |
| Client, `client.py`, `exceptions.py` | an OAuth2 session per request; the token in Django's cache, shared by all requests of a process | `__init__`, `fetch_token`, `call`, `_get_http_error` | OAuth server, Haal Centraal, cache |
| Field sets, `fields.py` and `src/src/config` | tables read at import | `read_dataset_fields_files`, `compact_fields_values`, `group_dotted_names` | persons view |
| Exception handler, `../views.py` | none | `exception_handler`, `server_error`: exceptions to problem+json | every view |
| Health views, in `views/base.py` | counters of the throttles | `get`: a request Haal Centraal must complain about | client, token cache |
| `testendpoint`, `management/commands` | none | a token and a request, for operators | client, token cache |
| Authentication bridge, `authentication.py` | none | decides between 401 and 403 | JWT middleware |
| Settings, routing, scripts | none | | |

Hard behaviours, each listed with its line under `hazards` in `PROJECT.json`:

- **Order.** `post()` works on three bodies, of which two share a list, and on an
  answer that is changed in place up to five times, between which the audit log
  is written. What the log and the client get depends on the order.
- **Failing halfway.** An exception handler that itself fails; a base audit
  record written before the step that fails; a client that returns nothing.
- **Combinations.** Seven search types, three rulesets for the municipality, two
  scopes that widen a search, two that refine it, a list of fields that the user,
  the scopes, the type and the log each have a say in.
- **Trees.** Three walks over a JSON answer that change it in place: links, null
  values with a tree of names shared by all residences, sealed numbers.
- **Concurrency.** Requests run in threads that share one cache entry, without a
  lock, while time passes at the OAuth server, in the cache and in a request,
  tokens are withdrawn and the process restarts. A request to the OAuth server
  has no timeout.
- **Over requests.** Sealed numbers go out in one answer and come back in a later
  request, under another id, after a deployment with other keys.
- **Text as data.** The salt of an encrypted number is found and removed as a
  substring; a file of field names has remarks and wildcards.

What makes each component correct: see "Runs" for the properties.

## Modules

| Module | Models | Correspondence |
|---|---|---|
| `AuditedAccess` | the promise of `post()` and `initial()` | Abstract: whether Haal Centraal was asked, what is on record, what was given, and in which order. |
| `ProxyView` | `views/base.py`, composing the five below | One action per step of `post()` and per way it may end. `pc` is the point between two steps, the other variables are the locals of `post()`, the audit log and the status. Implements `AuditedAccess`. |
| `ParameterPolicy` | `permissions.py` | A rule is `None` (`Deny`) or a set of scopes (`OneOf`). `Verdict` and `ScopesUsed` are the two results of `validate_values`; `ValidateParameters` returns the set of possible verdicts, because the client chooses the order of the parameters. |
| `Encryption` | `encryption.py` | Text is a sequence of symbols; a Fernet token is a record with its key and its text. `Without` is `str.replace(s, "")`: occurrences are taken from the left, and one that overlaps a taken one is passed over (`Replaced`). |
| `ClientErrors` | `client.py` (`call`, `_get_http_error`), the `except` of `post`, `../views.py` | An outcome is what happened on the wire; `CallResult` is the exception it becomes, `ErrorStatus` the status that ends in, `CauseHasJson` whether the handler of `post` survives it. |
| `PersonenView` | `views/personen.py` | One operator per hook and per helper. |
| `OtherViews` | the other two views | Rulesets and null values of occupants. |
| `AnswerTrees` | the three walks of `views/base.py` over an answer | A document maps the path of each value to the value. What one call of `_rewrite_links`, `_include_nulls` and `_process_bsn` does to it (`WithLink`, `WithNulls`, `WithSeals`) and which calls it makes (`LinkCalls`, `NullCalls`, `ItemCalls`, `SealCalls`). The tree of names that `group_dotted_names` makes is the set of names; the residence history view changes it from one residence to the next (`OwnNames`). |
| `AnswerRewriting` | those walks in the order of `post()`, for each view | One action per call. `calls` holds the calls that were made and have not begun, in place of the recursion's stack; `First` is the order in which they begin: of the keys of an object any, of the elements of a list the first. What a call for nulls adds to an object it adds at once, where the code alternates between adding a key and walking into it: the two touch different objects and different levels of the tree of names. `IncludeNullsFails` is the `KeyError` of an unknown type of residence. |
| `NumberExchange` | `encryption.py` over several requests and deployments | `Answer` and `SendBack` are a client's requests, `Rotate` and `Retire` deployments with other `HAAL_CENTRAAL_BRP_ENCRYPTION_KEYS`. Uses `Encryption` with its keys as a variable. |
| `TokenCache` | `client.py` (`__init__`, `fetch_token`, `_cache_token`) under concurrency | A worker is a thread that handles a request; one action per cache or token step; `ForceFetch` is what `testendpoint` does; `Tick` lets time pass, with or without an answer of the OAuth server that is under way; `Revoke` is that server's; `Restart` loses the workers, and the cache too unless `CACHE_URL` keeps it outside of their process. |
| `ScopeGrowth` | `permissions.py` | A token that gains scopes, to state what a policy promises about more scopes. |
| `FieldSets` | `fields.py` | A name is its parts and whether it ends in `.*`; reading a file with its remarks, the policy that files become. `compact_fields_values` is left out (see "Not modelled"). |
| `FieldGrowth` | `ScopeGrowth` with `FieldSets` | What the lines of the files mean to the user whose token gains their scopes. |
| `HealthView` | `BaseHealthCheckView`, `testendpoint`, with `ClientErrors` | `Change` is the network's; `Probe`, `TestEndpoint` and `Query` call Haal Centraal with the token that is in the cache, or fetch one. |
| `MC...` | | Values of the constants. |
| `...Proofs` | | Theorems. |

The bodies, answers and persons of `ProxyView` are reduced to what the properties
tell apart: a body maps a parameter to the set of its values (a scalar is a
singleton, as `validate_values` makes it), a person in an answer is a function
from the keys that are present to their values, and a field is one name. What
nested names, objects and lists add is in `AnswerRewriting` and `FieldSets`.
`Haal Centraal` is external: it returns any set of residents that satisfy the
filters sent to it, or fails in any way the client can observe. Of each resident it
sends the fields that were asked for and those it delivers by itself
(`AutomaticFields`: the comment at `views/personen.py:132` and the README at
`src/README.md:100` say so and leave the list to its documentation). The `Variant`
definitions next to some operators are plausible slips in that code; each
property is shown to notice one.

`TokenCache` and `ProxyView` meet in `client.call` only: what a token that is
missing, late or withdrawn leads to is among the outcomes of `ProxyView`, and
which outcomes the cache can lead to is the matter of `TokenCache`. `HealthView`
joins both in the small: the cache as there or not, the outcomes as they follow
from it.

## Runs

`ProxyView` is checked with four sets of requests (`MCProxyView.tla`), each of which
varies one part of a request in full and keeps the rest simple, with the same
five residents, chosen so that each filter has somebody to hold back, and
with every outcome: 7 statuses, 4 content types, 8 bodies, 4 exceptions.

| Requests | Vary |
|---|---|
| `SearchRequests` | four search types, one for each of the rulesets for the municipality and the one that must name it, municipality (absent, Amsterdam, other), deceased parameter (absent, text true or false, boolean), all sets of the four scopes that matter, with and without the scopes of the type |
| `FieldRequests` | every list of four fields or none, both gegevenssets, confidential scope, both formats |
| `NumberRequests` | plain numbers and numbers sealed with the current, an older and an unknown key and another correlation id, alone and together, with and without the scope and a type, in the three views |
| `FailureRequests` | the three views, headers, token, unknown parameters, a list of fields that is one text, a request for which no field is left, a number that was not sealed |

The residents are one of Amsterdam with all fields, one of elsewhere, a deceased one, a
confidential one without a name and with `inOnderzoek`, one without a number and
with `opschortingBijhouding`. Haal Centraal delivers these two fields unasked.

| Run | Varies | Shows |
|---|---|---|
| `requests` | the four sets above | type: `TypeOK`; who is out of reach stays out of the answer: `WithinMunicipality`, `DeceasedNeedsScope`, `ConfidentialHidden`; what is asked for and leaves: `OnlyGrantedFields`, `NumbersSealed`; what is on record and when: `DeliveredIsAudited`, `LogsClientRequest`, `NeededJustifies`, `LoggedBeforeDelivered`, `RefusalIsAudited`; whom a failure is blamed on: `NeverBlamesClient`; and that the view implements `AuditedAccess`: `ImplementsAuditedAccess` |
| `answers` | answers of the three views with each key, list and link there or not, lists of up to two, links at several depths and to elsewhere, known and unknown types of residences | the walks lose nothing, add what they should and nothing else: `ValuesKept`, `EveryNameIsThere`, `AddedIsNamed`, `NumbersSealedOnce`, `LinksRewritten` |
| `exchange` | two numbers and a null, five ids: one is a part of another, one holds the separator, one is a digit of the numbers, two are such that what is cut overlaps with itself; three keys | sealed numbers over requests and deployments: `TypeOK`, `ReadableWhileDeployed`, `RetiredOpensNothing`, `PassedStartsWithNumber` |
| `token_cache` | two workers, two tokens, lifetimes 3 and 6 against a margin of 4, withdrawal, restart, answers that are late or never come | `TypeOK`, `CacheKeepsMargin`, `PresentedInTime`, `ShortLivedNotShared`, `RevokedLeavesCache` |
| `scope_growth` | policies with exact values, denied values, overlapping patterns and defaults; directories of two files with remarks, names Haal Centraal does not know, nested and overlapping wildcards | `FilledInIsGranted`, `NeededSuffice`, `MoreScopesGrantMore`, `GrantedIsListed` |
| `health` | eight conditions of Haal Centraal, three of the OAuth server, a token that is missing, valid or withdrawn | what operators are told: `HealthTellsService`, `CommandTellsConnection`, `EventuallyHealthy` |

The bounds are enough because a request is handled alone: no state of `ProxyView`
outlives it, so that one request at a time, out of a set that holds every
combination of the parts that interact, is every behaviour. The parts of a request not
varied together (search filters, fields, numbers, refusals) meet in the code only
through `req.scopes` and the record of the request. For the walks, a list of two
has a first element and one after it, which is what sharing a tree of names can
spoil; a child in a person in a list is as deep as the answers of the registry
get in the keys that matter, and the walks do not depend on depth. Three keys
give a newest, an oldest and one that is neither; a client that holds two numbers
(`MaxHeld`) can confuse them. For the cache, two
workers suffice for one to overwrite what another stored; two tokens let a
stored token be withdrawn, replaced, or overwritten by an older one. Time is in units: margin
4 with latency and hold of 1 leaves room on both sides of each comparison, and
lifetime 3 is a token below the margin. `HealthView` has no bound to choose. The
theorems below remove the bounds of `ProxyView`, `TokenCache`, `ScopeGrowth`,
`FieldGrowth` and `NumberExchange`, and those of `AnswerRewriting`: depth, width
and shape of an answer.

Deadlock is checked in all runs but `answers` and `missing_list`, where the
rewriting of one answer is a behaviour and ends, with a reply or with a failure.

`WithinMunicipality` is the README's bound on a search as far as the code keeps it:
nobody from elsewhere without one of the two nationwide scopes, never for the four
types the code keeps in Amsterdam, and for each other type with the scope that is
its own. What the documents say beyond that, of a search by postcode, is
`nationwide_scope` below.

Six more runs state what a comment, a test or the README of the
repository says, and are violated by what the code does:

| Run | Said | Done |
|---|---|---|
| `every_call_audited` | "Even when the request failed, still log that we did grant access." (`views/base.py:226`) | A timeout, a broken connection or an error that is no JSON reaches that handler, which fails on the response of the cause: 500, and no record. In the trace the call times out. |
| `refused_number_logged` | "Perform the audit logging for the denied request." (`views/base.py:350`) | `log_decryption_failed` reads the type of the request before anybody has asked for one. A number that cannot be decrypted, in a request without a type, ends in 500 without a record. |
| `nationwide_scope` | "When the scope *benk-brp-landelijk* is missing, only results within Amsterdam are returned." (`src/README.md:234`); "if both scopes are present" (`views/personen.py:194`) | A search by postcode that names municipality 0518 gets its residents with the postcode's own nationwide scope alone. |
| `failure_logs_request` | "Also clean up from request before logging it." (`views/personen.py:413`) | On a failed call the request is logged with the identifiers that were added to it. |
| `numbers_read_back` | Encrypted numbers "will be decrypted" (`src/README.md:112`), and cannot be used under another correlation id (a test) | In the trace the number 91 is sealed under the id `r1`, as `91:r1`, and sent back under `r`, the beginning of that id. It is accepted, `:r` is cut out of the text, and 911 is sent on. The run has these two ids only. |
| `missing_list` | "all array fields (which shouldn't get null-defaults)" (`views/bewoningen.py:47`) | An occupancy without a list of occupants is given an object of null values in its place. |

Other differences, which the models contain and no run is about:

- A timeout is a 504 (`exceptions.py:28`), but the handler of `post()` fails on
  `e.__cause__.response` first, and the client gets 500.
- The README has `inclusiefOverledenPersonen=false`; only the text `"false"` is
  in the ruleset, the boolean is an unknown value: 400.
- For users with encryption a number that is null in the answer becomes the
  encrypted text `None`.
- A wildcard in a gegevensset would be dropped from the default list of
  fields, as it is intersected with names that hold none; no file has one.
- A 304 makes `call` return `None`, which the health view reports as a success,
  and on which `post()` fails after the call, without a record.
- An answer without the list of persons is on record as granted, and then the loop
  over them fails: 500.
- A residence of an unknown type ends in 500 without a record.
- `../views.py:65` provides for a complaint whose detail is a list or an object, but
  Django REST framework has made it the whole of `response.data` by then: a list has no
  `update`, an object is given itself for a member and cannot be rendered. A 400 of
  Haal Centraal reaches the client as a 500 (`ErrorStatus`).
- `testendpoint` ends with a traceback in every case but the one in which Haal
  Centraal complains of the type.

## The refinement

`AuditedAccess` says what a request may lead to with three variables: whether
Haal Centraal was `asked`, what is on `record` of it, and what was `given`.
A refusal is on record when it is sent and excludes asking; data follow a record
of the grant; a failure may come anywhere and never turns a record into
its opposite. `ProxyView` implements it under the mapping

    asked  <- outcome # NoOutcome
    record <- the events in the audit log, reduced to granted, denied, none
    given  <- the status of the reply, with 401 and 403 for want of a token or
              scope as a refusal and all else but 200 as a failure

The steps before the call are stutters but for the last of them (`Ask`);
decisions on the way end in `Refuse` or `Fail`. `ImplementsAuditedAccess` is
checked in `requests` with every outcome, and proved as `Implementation`.

## Fairness

`ProxyView` assumes none: its properties are about what a request leaves behind at
each step, and none says that a request ends. Nothing could, since the token
request has no timeout (`client.py:110`).

`TokenCache` has strong fairness of `Tick` (time passes; it is held up only while a
worker has a deadline to meet, which may recur) and weak fairness of a worker's own
steps: the first one with its client, storing a token it received, and the call to
Haal Centraal, which has a timeout of 60 seconds. It has none of the OAuth server,
which need not issue a token, nor of its answer (`Receive`), which need not
arrive; time does not wait for either. `RevokedLeavesCache` holds with every worker
stuck there.

`HealthView` assumes that probes keep coming, as they do from the monitoring a
health view is for, and that an entry of the cache times out. Nothing makes a
server recover: `EventuallyHealthy` has that as its premise.

## Proofs

| Module | Theorems | For |
|---|---|---|
| `ProxyViewProofs` | `TypeCorrect`, `RefusalsAudited`, `LoggedFirst`, `Confidential`, `Implementation`, `Blameless`, `RequestLogged`, `Sealed`, `Audited` | any requests, residents, outcomes and keys |
| `ReachProofs` | `Municipality`, `Deceased`, `FieldsGranted`, `NeededOnRecord` | the same, and any tables of fields |
| `TokenCacheProofs` | `TypeCorrect`, `CacheMargin`, `InTime`, `NotShared` | any number of workers and tokens, any lifetimes |
| `FieldGrowthProofs` | `FillingIn`, `Needed`, `Monotone`, `Listed` | any files, policies, names, values and scopes |
| `NumberExchangeProofs` | `TypeCorrect`, `Retired`, `Readable`, `NumberFirst` | any keys, numbers, ids and number of deployments |
| `HealthViewProofs` | `HealthIsService`, `CommandIsConnection` | any course of the two servers and the token |
| `AnswerRewritingProofs` | `NothingLost`, `OnlyNullsAdded`, `EverySealOnce`, `LinksLead` | answers of any shape, any names and types |
| `NamesProofs` | `WalkInvariant`, `NullsAreNamed`, `NoNameMissing` | answers of any shape, any names, and types whose names fit together (`AnswerRewriting!TypesAssumption`) |

*ProxyView, the log.* `RefusalIsAudited` is not inductive: that a granted record is
written only after the call, and a refusal only before it, has to be known at each point
of `post()`. `StepInv` says so: up to the call the log is empty and nothing was
asked; between the call and `log_access_granted` it is still empty; at `logged`
there is a granted record and no refusal. With the fact that an exception the
view handles never has status 200 (`HandledStatus`), the only step that answers
200 starts from `logged`, which gives `LoggedBeforeDelivered`. The refinement
rests on the same invariant: one lemma per kind of step says how the three mapped
variables move (`MappedRefusal`, `MappedAnswer`).
`ConfidentialHidden`
needs `AnswerInv`: every person of the answer is a resident and flagged when
confidential (`AnswersAreFlagged`, what is assumed of Haal Centraal), and each
hook that follows keeps who a person is and never takes a flag away before the
flagged are left out (`HooksHide`, `EncryptKeepsWho`).

*ProxyView, the request.* `NeverBlamesClient` follows from the statuses
an exception may have (`BlamelessStatus`) and from where a token is looked at.
`LogsClientRequest` needs `SharedInv`, which describes the list that `request.data` and
`hc_request` share: from the transformation to the clean-up it holds what
the client sent and the inserted names, which the client did not send, so that taking
them out restores it.

*ProxyView, the answer.* `NumbersInv` follows a number: it is asked for whatever
the client asks (`RequestInv`), each person of the answer has its own or none
(`PersonsInv`), up to the last step all are readable, and at `logged` each is in
a record (`RecordsInv`). `WithinMunicipality` and `DeceasedNeedsScope` follow
the filters: what validation accepted (`AcceptedInv`) and what was filled in for
what was left out together admit only residents within reach (`ReachInv`), and
Haal Centraal returns only whom the filters admit. `OnlyGrantedFields` needs
`FieldsInv`: what is asked for is wanted or was inserted, keys are up to the clean-up
asked for, inserted or delivered by Haal Centraal itself, and after it a key
that is not wanted is one of the last, with the value that was sent (`AsSent`). `NeededJustifies` needs `NeededInv`:
from validation on, the scopes collected grant the request without what was
inserted, since a rule that is met is still met by the scopes it was met with
(`UsedGrant`) and more scopes take nothing away.

*TokenCache.* The strengthening follows a token through its life: while its
answer is under way it has lost no more than the time the worker counted
(`SessionStep`, `FlightStep`), in the cache its remaining lifetime plus the
latency exceeds the entry's timeout by the margin (`CacheStep`), and a client
built from the cache inherits that and counts on (`BuiltStep`). A restart only
takes tokens away.

*ScopeGrowth and FieldGrowth* (both in `FieldGrowthProofs`). The properties follow from lemmas on `Grants`,
`NeededScopes` and `Verdict`, and for the files on what a rule of a name is made
from (`RuleOfName`) and on the first of the patterns that match (`FirstOf`). There
is no invariant to find beyond the policy being one of those considered.

*NumberExchange.* The keys in use are an interval of those introduced, backwards
(`TypeOK`); a deployment extends it at one end (`IntervalGrows`) or shortens it at the
other (`IntervalShrinks`). With `SealedInv`, that a number carries the key that was
newest when it was sealed, a key that is out of the interval opens nothing.

*NumberExchange, the text.* `ReadableWhileDeployed` is about `str.replace`: cutting
`":" id` from `number ":" id` leaves the number, even when the id occurs in the number
or overlaps with itself. A number holds no separator, so that nothing is cut that
begins in it (`WithoutKeepsFront`), the first place where the salt stands is right
behind the number (`SaltBehindNumber`), and the first of the occurrences is always
taken, which leaves nothing behind it (`OwnSaltIsCut`). The n-th symbol of what is
left is found by counting the positions that are kept, so the proof compares
cardinalities of sets of positions; no induction is needed. The invariant
(`ExchangeInvariance`) says of each held number which key and which text it was
sealed with. `PassedStartsWithNumber` needs the first half only: under a foreign
id more may be left than the number, but never less (`DecryptsPrefix`).

*HealthView.* The two action properties need that the servers and the token are in one of their conditions
(`ConditionsHold`), and then that the complaint a probe waits for comes from where a
query is answered and from nowhere else (`ProbeMeetsWhatQueryMeets`).

*AnswerRewriting.* A walk is correct once it has ended; what holds on the way is the
invariant. `Apart`: no call is made for what another call will come to, so that no
value is met twice. `Pending`: a value to which a call will come. `LinksInv` and
`SealsInv` then say that a link reads as it will, and a number is sealed once, exactly when no
call will come to it. A step of a walk takes one call and replaces it by
calls for what its value holds (`CallsStayApart`), so that for each value below
there are three cases: it is dealt with now, a new call will come to it, or it is
nothing the walk is about (`LinksStep`, `SealedStep`). `LinkCallsInv` says why the
keys that are skipped hold no link of interest: a call is within `_links` exactly
when its path is, and never below a key that was skipped. `NullCallsInv`
keeps the names that are put in from continuing below a citizen service number, so that
numbers stay leaves, or lists of leaves (`DocumentInv`), and `KeptInv` is the
promise of `ValuesKept` for the document at hand. The whole of it, `IInv`, was
checked by TLC on the instance of `answers` before it was proved.

*AnswerRewriting, the names* (`NamesProofs`). A name is a sequence of parts, a path
has the positions in lists between its keys; `Parts` leaves those out by counting the
keys before a place, as `Without` does for texts. What it does to a longer path is
then a matter of cardinalities (`PartsOfAppend`), and the one induction, that the
parts of the beginning of a path begin its parts (`PartsOfPrefix`), is over a number,
of which it takes the least that would fail.

`EveryNameIsThere` and `AddedIsNamed` are about the end of the walk and about the
document; `WalkInv` says what holds on the way, of the calls. It has four parts:

- `StackInv`: the calls that have not begun are a stack. Each is for what lies beside
  the path of any that is deeper, and after it when they are elements of a list
  (`Beside`); and the tree of names a call has at hand (`under`) is at the keys of
  its path. It is an invariant because of the order in which calls begin (`First`).
- `NamesInv`: the names at hand are those of the view and those of the objects whose
  call is past (`Past`): no call will come to them again, and those still to begin are
  for what comes after. So a name of a residence never gets into an earlier one.
  Where a path with a type above it is still to be called for, all names of that
  type are at hand.
- `AddedInv`: what was added stands under such a name, and no call will come to what
  holds it, so that an object has the type it came with when it is called for
  (`TypeAsItCame`).
- `PromisedInv`: a name that should be in an object is there, or a call will come to
  the object or to something above it. This is the promise of the walk; at its end
  there are no calls, and what is left of it is `EveryNameIsThere`.

A step keeps the last because a call adds what is missing at its own place and
calls for each child on the way to an object with a name to come (`WalkGoesOn`). For
a type this needs its names to be at hand at every object below it
(`NamesAfterObject`), and above it the names of the view that led to it. Both could be
lost when the names of one type take the place of others (`dict.update`):
`UpdateKeeps` is where `TypesAssumption` is used. `WalkInv` was checked by TLC on
trees with typed objects within typed objects, lists of lists and a type at the top
before it was proved.

Assumptions, all evaluated by TLC in the runs:

| Assumption | Says |
|---|---|
| `RequestsAssumption`, `TypesAssumption` | the shape of requests; a type is one text, as the API documents it |
| `OutcomesAssumption` | the outcomes are those `call` distinguishes |
| `PopulationAssumption` | residents are told apart by who they are |
| `FieldsAssumption` | what the tables of fields have in common: the citizen service number is known for every type, the administration number not for all, and every rule names a scope |
| `TimingAssumption` | latency and hold together stay within the margin, and every lifetime exceeds them; the code claims this with the number 900 but does not enforce it |
| `NoTokenAssumption` | no token is `None` |
| `FileSetsAssumption`, `FieldGrowth!NamesAssumption` | files belong to scopes; a name is its parts and whether it ends in a wildcard |
| `ExchangeAssumption` | there is a key to begin with |
| `TextAssumption` | a citizen service number holds no `:`; an id is any text that is not empty (`HasRequiredHeaders` refuses an empty one) |
| `CasesAssumption` | an answer is a document: what holds a value is an object or a list; a citizen service number is a leaf or a list of leaves; an answer to the persons view has its list of persons; nothing is sealed yet |
| `AnswerRewriting!NamesAssumption` | a name has parts, and none follow `burgerservicenummer` |
| `AnswerRewriting!TypesAssumption` | when the names of a type take the place of those at hand with the same first part, they have what these have below it. It holds of the tables of the repository: `inOnderzoek` is the one part that a type shares with names from below their first part, where nothing follows it, in any type; with the names of `fields.csv` no type shares one. With other tables a residence could lose names to the type of another |

Only model-checked:

- liveness: `RevokedLeavesCache`, `EventuallyHealthy`;
- that the walks end, and the runs that expect a violation.

## Not modelled

- The throttles of the health views, the JWT check, Django, DRF's parsing of
  bodies, the export of audit records to Azure in batches from another thread:
  libraries. A record is taken as a copy made when it is written.
- `compact_fields_values`, the short form of a list of names with wildcards: its
  input is intersected with the names of the type (`views/personen.py:287`), which
  hold no wildcard, so that there is nothing to shorten.
- Wording of messages, titles, codes and media types of error pages, headers of answers,
  timings in records: no property is about them.
- `handler400` and `handler404`, the index page, routing, settings apart from the
  cache and the keys, scripts, the mock server, container files: constants or
  configuration, with no state and no order of steps.

## Plan

1. The view and the token cache together: workers that run `post()` with the
   cache between them.
2. Answers of `ProxyView` as the trees of `AnswerRewriting`, on the few cases in
   which persons are left out and trees filled in at once.
