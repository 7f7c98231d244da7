--------------------------- MODULE MCAccountAccess --------------------------
(* Instances of AccountAccess.                                             *)
EXTENDS AccountAccess, TLC

CONSTANTS
    MaxWork     \* bound: mails sent and rows made, and twice the passkeys

Keys == {k \in Passkeys : passkey[k] # NoKey}
Guessing == \E b \in Browsers : call[b].pc \in {"match", "mismatch", "burn"}
Drawn == {c \in Codes : code[c] # NoCode}
Begun == {a \in Attempts : attempt[a] # NoAttempt}

(* Sign-in codes in full before there is a passkey, then magic links only. *)
(* With no sign-in mail outstanding, recovery codes of an account with one *)
(* address and few passkeys, or badge recovery of one left with nothing.   *)
Bound ==
    LET made == MapThenSumSet(LAMBDA e : sent[e] + rows[e], Emails) IN
    /\ Keys # {} => ~Guessing /\ \A e \in Emails : otp[e].attempts = 0
    /\ made + 2 * Cardinality(Keys) <= MaxWork
    /\ Drawn \cup Begun # {} => /\ made = 2 /\ \A e \in Emails : magic[e] = 0 /\ otp[e] = NoOtp
                                /\ Drawn = {} \/ Begun = {}
    /\ Drawn # {} => Cardinality(Drawn \cup Keys) <= 3
    /\ Begun # {} => Keys = {} /\ \A b \in Browsers : sess[b].via = None
    /\ \A u \in Users : holds[u] # {} => \E a \in Attempts : attempt[a].user = u

Symmetry ==
    Permutations(Users) \cup Permutations(Emails) \cup Permutations(Passkeys)
        \cup Permutations(Browsers)
=============================================================================
