------------------------------ MODULE Encryption ------------------------------
(***************************************************************************)
(* encryption.py: a burgerservicenummer leaves the proxy as a Fernet token *)
(* of "<bsn>:<correlation id>" and comes back in a later request.          *)
(*                                                                         *)
(* Text is a sequence of symbols, because the code compares and cuts the   *)
(* text: "salt not in decrypted_value" and "replace(':salt', '')" see      *)
(* substrings.  A token is opaque: only a listed key opens it.             *)
(***************************************************************************)
EXTENDS Naturals, Sequences, FiniteSets

CONSTANTS
  Keys    \* HAAL_CENTRAAL_BRP_ENCRYPTION_KEYS, newest first

ASSUME KeysAssumption == Keys \in Seq(STRING) /\ Keys # <<>>

-----------------------------------------------------------------------------
(* Values of a JSON field that may hold a burgerservicenummer *)

Plain(text) == [form |-> "plain", key |-> "", text |-> text]

Null == [form |-> "null", key |-> "", text |-> <<>>]

Cipher(key, text) == [form |-> "cipher", key |-> key, text |-> text]

-----------------------------------------------------------------------------
(* str.__contains__ and str.replace(s, "") of Python *)

Occurrences(s, t) ==
  {i \in 1..(Len(t) + 1 - Len(s)) : SubSeq(t, i, i + Len(s) - 1) = s}

\* str.replace reads from the left: an occurrence that overlaps one that was
\* replaced is passed over.
Replaced(s, t) ==
  LET taken[i \in 1..Len(t)] ==
        /\ i \in Occurrences(s, t)
        /\ \A j \in 1..(i - 1) : taken[j] => j + Len(s) <= i
  IN {i \in Occurrences(s, t) : taken[i]}

Kept(s, t) == {k \in 1..Len(t) : ~ \E i \in Replaced(s, t) : k \in i..(i + Len(s) - 1)}

UpTo(k, positions) == {j \in positions : j <= k}

\* The n-th symbol is that of the position up to which n are kept.
Without(s, t) ==
  [n \in 1..Cardinality(Kept(s, t)) |->
     t[CHOOSE k \in Kept(s, t) : Cardinality(UpTo(k, Kept(s, t))) = n]]

Salted(text, salt) == text \o <<":">> \o salt

\* MultiFernet encrypts with the first key; str(None) is the text "None".
Encrypt(value, salt) ==
  Cipher(Keys[1], Salted(IF value.form = "null" THEN <<"None">> ELSE value.text, salt))

\* Variant: only the newest key is tried.
CanDecryptNewest(value, salt) ==
  /\ value.form = "cipher"
  /\ value.key = Keys[1]
  /\ Occurrences(salt, value.text) # {}

\* Variant: a key that was used once is not forgotten.
CanDecryptEver(value, salt) ==
  /\ value.form = "cipher"
  /\ Occurrences(salt, value.text) # {}

\* MultiFernet tries every key.  FALSE is the DecryptionFailed exception:
\* no token at all, an unknown key, or text that does not hold the salt.
CanDecrypt(value, salt) ==
  /\ value.form = "cipher"
  /\ \E i \in DOMAIN Keys : Keys[i] = value.key
  /\ Occurrences(salt, value.text) # {}

\* Variant: the text is cut at the separator, and the wrong part kept.
DecryptTail(value, salt) == Plain(Tail(Without(salt, value.text)))

Decrypt(value, salt) == Plain(Without(<<":">> \o salt, value.text))

=============================================================================
