---------------------------- MODULE NumberExchange ----------------------------
(***************************************************************************)
(* The encrypted numbers between requests.  A client keeps the sealed      *)
(* numbers of the answers it got and sends them back in later requests,    *)
(* under the correlation id of its choice.  Meanwhile the proxy is         *)
(* deployed anew with other HAAL_CENTRAAL_BRP_ENCRYPTION_KEYS: it keeps no *)
(* number itself, so that the keys are all that connects two requests.     *)
(***************************************************************************)
EXTENDS Naturals, Sequences, SequencesExt

CONSTANTS
  Numbers,          \* the texts of the citizen service numbers
  CorrelationIds,   \* the values of X-Correlation-ID
  AllKeys,          \* the keys, in the order in which they are introduced
  MaxHeld           \* bound: the sealed numbers a client collects

ASSUME ExchangeAssumption ==
  /\ AllKeys \in Seq(STRING) /\ AllKeys # <<>>
  /\ MaxHeld \in Nat

\* A number is digits; an id is any text, but HasRequiredHeaders refuses an
\* empty one.
ASSUME TextAssumption ==
  /\ \A n \in Numbers : n \in Seq(STRING) /\ \A i \in DOMAIN n : n[i] # ":"
  /\ CorrelationIds \subseteq Seq(STRING) \ {<<>>}

VARIABLES
  keys,        \* HAAL_CENTRAAL_BRP_ENCRYPTION_KEYS, newest first
  introduced,  \* how many of AllKeys were deployed so far
  held,        \* the sealed numbers of the client: [value, number, id, newest]
  sent         \* the last request with a number: [held, id, passed]

vars == <<keys, introduced, held, sent>>

E == INSTANCE Encryption WITH Keys <- keys

NothingSent == [held |-> {}, id |-> <<>>, passed |-> {}]

Init ==
  /\ keys = <<AllKeys[1]>>
  /\ introduced = 1
  /\ held = {}
  /\ sent = NothingSent

\* encrypt_response: an answer shows a number, or a null that was inserted for
\* an unknown one; both leave the proxy sealed.  What was sealed, under which id
\* and with which newest key is remembered for the properties only.
Answer(value, id) ==
  /\ Cardinality(held) < MaxHeld
  /\ held' = held \cup {[value |-> E!Encrypt(value, id), number |-> value, id |-> id,
                         newest |-> keys[1]]}
  /\ UNCHANGED <<keys, introduced, sent>>

\* decrypt_request: what is passed on to Haal Centraal, nothing when it fails.
Passed(value, id) == IF E!CanDecrypt(value, id) THEN {E!Decrypt(value, id)} ELSE {}

SendBack(h, id) ==
  /\ sent' = [held |-> {h}, id |-> id, passed |-> Passed(h.value, id)]
  /\ UNCHANGED <<keys, introduced, held>>

\* Variant: the new key is put last, where it is never used to encrypt.
RotateLast ==
  /\ introduced < Len(AllKeys)
  /\ keys' = keys \o <<AllKeys[introduced + 1]>>
  /\ introduced' = introduced + 1
  /\ sent' = NothingSent
  /\ UNCHANGED held

\* A deployment with a new key in front ...
Rotate ==
  /\ introduced < Len(AllKeys)
  /\ keys' = <<AllKeys[introduced + 1]>> \o keys
  /\ introduced' = introduced + 1
  /\ sent' = NothingSent
  /\ UNCHANGED held

\* ... and one without the oldest.
Retire ==
  /\ Len(keys) > 1
  /\ keys' = Front(keys)
  /\ sent' = NothingSent
  /\ UNCHANGED <<introduced, held>>

Values == {E!Plain(n) : n \in Numbers} \cup {E!Null}

Next ==
  \/ \E v \in Values, id \in CorrelationIds : Answer(v, id)
  \/ \E h \in held, id \in CorrelationIds : SendBack(h, id)
  \/ Rotate
  \/ Retire

Spec == Init /\ [][Next]_vars

-----------------------------------------------------------------------------
(* What a client may rely on *)

\* The keys are deployed in their order, none twice.
TypeOK ==
  /\ introduced \in 1..Len(AllKeys)
  /\ \E n \in 1..introduced : keys = Reverse(SubSeq(AllKeys, n, introduced))
  /\ \A h \in held : h.value.form = "cipher" /\ h.id \in CorrelationIds

\* _get_fernet: a number that was sealed while a key was the newest one is read
\* back under the same id for as long as that key is deployed, however many
\* newer keys were put before it and older ones dropped since.
ReadableWhileDeployed ==
  \A h \in held : h.number # E!Null /\ Contains(keys, h.newest) =>
    Passed(h.value, h.id) = {h.number}

\* ... and a key that is no longer deployed opens nothing: retiring it ends the
\* life of what it sealed, under any id.
RetiredOpensNothing ==
  \A h \in held : ~ Contains(keys, h.newest) =>
    \A id \in CorrelationIds : Passed(h.value, id) = {}

\* decrypt: whatever the id, nothing reaches Haal Centraal that is still sealed
\* or does not start with the digits of the number.
PassedStartsWithNumber ==
  \A v \in sent.passed, h \in sent.held :
    /\ v.form = "plain"
    /\ h.number # E!Null => IsPrefix(h.number.text, v.text)

\* README: "Subsequent calls to the API can be made with the encrypted
\* burgerservicenummers and will be decrypted"; a test adds that the token of
\* another correlation id is refused.  What is passed on is thus the original.
NumbersReadBack ==
  \A v \in sent.passed, h \in sent.held : h.number # E!Null => v = h.number

=============================================================================
