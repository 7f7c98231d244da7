--------------------------- MODULE ConsentPromise ---------------------------
(***************************************************************************)
(* What the OpenID Connect provider promises about disclosure, without     *)
(* handlers, sessions, grants or races: a relying party gains access only  *)
(* through a decision, a decision covers only what was ticked for that     *)
(* relying party, it yields access at most once, and access that has ended *)
(* never comes back.                                                       *)
(***************************************************************************)
CONSTANTS Clients, Items, Codes, Jtis, None

VARIABLES
    ticked,     \* <<client, item>> pairs an owner agreed to
    decided,    \* per code: what its consent lets out, and to whom (if any)
    access      \* per token: the code behind it, and whether it answers

pvars == <<ticked, decided, access>>

Undecided == [client |-> None, items |-> {}]
NoAccess == [code |-> None, phase |-> "never"]

Init ==
    /\ ticked = {}
    /\ decided = [k \in Codes |-> Undecided]
    /\ access = [j \in Jtis |-> NoAccess]

Tick(S) ==
    /\ ticked' = ticked \cup S
    /\ UNCHANGED <<decided, access>>

Decide(k, c, S) ==
    /\ decided[k] = Undecided
    /\ {c} \X S \subseteq ticked
    /\ decided' = [decided EXCEPT ![k] = [client |-> c, items |-> S]]
    /\ UNCHANGED <<ticked, access>>

(* Access may be stillborn: the account can have been merged away since.   *)
Redeem(j, k, phase) ==
    /\ access[j] = NoAccess
    /\ decided[k] # Undecided
    /\ \A i \in Jtis : access[i].code # k
    /\ access' = [access EXCEPT ![j] = [code |-> k, phase |-> phase]]
    /\ UNCHANGED <<ticked, decided>>

End(S) ==
    /\ access' = [j \in Jtis |-> IF j \in S /\ access[j].phase = "on"
                                   THEN [access[j] EXCEPT !.phase = "off"]
                                   ELSE access[j]]
    /\ UNCHANGED <<ticked, decided>>

Next ==
    \/ \E S \in SUBSET (Clients \X Items) : Tick(S)
    \/ \E k \in Codes, c \in Clients, S \in SUBSET Items : Decide(k, c, S)
    \/ \E j \in Jtis, k \in Codes, phase \in {"on", "off"} : Redeem(j, k, phase)
    \/ \E S \in SUBSET Jtis : End(S)

Spec == Init /\ [][Next]_pvars
=============================================================================
