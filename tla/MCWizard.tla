------------------------------ MODULE MCWizard ------------------------------
(* Instances of Wizard.  Each behaviour exercises one plugin: sessions of    *)
(* two plugins share nothing but the account's backup state.                 *)
EXTENDS Wizard, TLC

CONSTANTS u1, u2

\* One credential of each person.  The public name of the second equals its
\* id, and its age in months is written with the same digits.
MCCreds == {[id |-> "7", handle |-> "ada", host |-> "org", age |-> 5, fans |-> 60, owner |-> u1],
            [id |-> "60", handle |-> "60", host |-> "mail", age |-> 61, fans |-> 3, owner |-> u2]}

MCPage == CHOOSE c \in MCCreds : c.owner = u1

Using ==
    LET rows == {row[s].plugin : s \in {r \in Sessions : Exists(r)}}
        calls == {IF call[k].at = "auto" THEN "email-domain" ELSE call[k].plugin : k \in Calls}
    IN (rows \union calls \union {b.plugin : b \in badges}) \ {"none"}

\* The input a step can use: any other ends the request in StepFails, and one
\* that every input satisfies is tried with one.
Parsed(st, p) ==
    CASE st.step = "form" -> "form"
      [] st.step = "magic" -> "link"
      [] st.step = "authorize" -> "callback"
      [] st.step = "prove" -> "presentation"
      [] st.step = "verify" /\ p \in {"wallet", "public-key"} -> "signature"
      [] OTHER -> "info"

\* A request whose input its step cannot use is not followed while it waits to
\* fail.  The invite code changes only where it is redeemed; an account is left
\* without a backup only in a single session of a short flow; a second session is
\* for the plugins whose flow is the shortest of its kind.
Bound ==
    /\ Cardinality(Using) <= 1
    /\ \A k \in Calls : call[k].at = "step" => call[k].in.kind = Parsed(call[k].st, call[k].plugin)
    /\ (invite.total = 0 \/ invite.revoked \/ invite.expired) => Using \subseteq {"invite-code"}
    /\ born = 2 => Using \subseteq {"email-domain", "github", "invite-code"}
    /\ pending # {} => (born <= 1 /\ pending = {u1} /\ Using \subseteq {"github", "invite-code"})

Symmetry == Permutations(Calls)
=============================================================================
