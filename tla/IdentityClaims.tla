--------------------------- MODULE IdentityClaims ---------------------------
(***************************************************************************)
(* What the design notes of accounts and sessions say beyond what the code *)
(* does, found violated; the history variable watches Identity and never   *)
(* constrains it.                                                          *)
(***************************************************************************)
EXTENDS MCIdentity

VARIABLE overtaken   \* verified logins whose account had its sessions revoked since

claimVars == <<vars, overtaken>>

ClaimInit ==
    /\ Init
    /\ overtaken = {}

\* The step revokes a session of the account login l has verified.
Overtakes(l) ==
    \E s \in Sessions :
        /\ Live(s)
        /\ session[s].user = login[l].target.id
        /\ session'[s].revoked = "admin-sessions-revoked"

ClaimNext ==
    /\ Next
    /\ overtaken' = {l \in Logins : login[l].phase = "verified" /\ login'[l].phase = "verified"
                                      /\ (l \in overtaken \/ Overtakes(l))}

ClaimSpec == ClaimInit /\ [][ClaimNext]_claimVars

\* A login that verified its password before the sessions of the account were
\* revoked opens no session after: docs/superpowers/plans/
\* 2026-08-22-phase-1-auth-users.md:779-781.
OvertakenLoginRefused ==
    [][\A s \in Sessions : Opened(s) =>
         \A l \in overtaken : login'[l] # IdleLogin]_claimVars
=============================================================================
