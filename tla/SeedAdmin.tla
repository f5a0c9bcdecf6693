----------------------------- MODULE SeedAdmin ------------------------------
(***************************************************************************)
(* The creation of the first administrator (packages/db/src/seed-admin.ts),  *)
(* run by every deployment, perhaps twice at once: the users are inspected   *)
(* under an advisory lock, the password is hashed outside of it, and the     *)
(* users are inspected again under the lock before the only insert.         *)
(***************************************************************************)
EXTENDS Basics, Integers, FiniteSets

CONSTANTS
    Seeds,        \* runs of the script
    SeedEmails,   \* the addresses it may be given
    OtherUsers    \* viewers created meanwhile

VARIABLES
    seed,         \* seed[s]: [email, phase, state]
    lockHolder,   \* whose transaction holds the advisory lock
    admins,       \* the addresses of the administrators, enabled for good
    viewers       \* the viewers there are

seedVars == <<seed, lockHolder, admins, viewers>>

SeedInit ==
    /\ seed = [s \in Seeds |-> [email |-> NULL, phase |-> "idle"]]
    /\ lockHolder = NULL
    /\ admins = {}
    /\ viewers = {}

Reaches(s, phase) == seed' = [seed EXCEPT ![s].phase = phase]

\* inspectIdentityState.
Inspected(s) ==
    IF admins = {} /\ viewers = {} THEN "EMPTY"
    ELSE IF admins = {seed[s].email} THEN "UNCHANGED"
    ELSE "CONFLICT"

\* acquireBootstrapLock: held to the end of the transaction.
Locks(s) ==
    /\ seed[s].phase \in {"asked", "hashed"}
    /\ lockHolder = NULL
    /\ lockHolder' = s
    /\ UNCHANGED <<seed, admins, viewers>>

FirstInspects(s) ==
    /\ lockHolder = s /\ seed[s].phase = "asked"
    /\ Reaches(s, IF Inspected(s) = "EMPTY" THEN "hashing" ELSE Inspected(s))
    /\ lockHolder' = NULL
    /\ UNCHANGED <<admins, viewers>>

Hashes(s) ==
    /\ seed[s].phase = "hashing"
    /\ Reaches(s, "hashed")
    /\ UNCHANGED <<lockHolder, admins, viewers>>

\* Slip: what was found before the hash still holds.
TrustsFirstLook(s) ==
    /\ lockHolder = s /\ seed[s].phase = "hashed"
    /\ admins' = admins \cup {seed[s].email}
    /\ Reaches(s, "CREATED")
    /\ lockHolder' = NULL
    /\ UNCHANGED viewers

SecondInspects(s) ==
    /\ lockHolder = s /\ seed[s].phase = "hashed"
    /\ LET found == Inspected(s)
       IN  /\ admins' = IF found = "EMPTY" THEN admins \cup {seed[s].email} ELSE admins
           /\ Reaches(s, IF found = "EMPTY" THEN "CREATED" ELSE found)
    /\ lockHolder' = NULL
    /\ UNCHANGED viewers

\* The process may die, and its transaction with it, or the database may refuse.
SeedFails(s) ==
    /\ seed[s].phase \in {"asked", "hashing", "hashed"}
    /\ Reaches(s, "failed")
    /\ lockHolder' = IF lockHolder = s THEN NULL ELSE lockHolder
    /\ UNCHANGED <<admins, viewers>>

RunsSeed(s, e) ==
    /\ seed[s].phase \notin {"asked", "hashing", "hashed"}
    /\ seed' = [seed EXCEPT ![s] = [email |-> e, phase |-> "asked"]]
    /\ UNCHANGED <<lockHolder, admins, viewers>>

\* Once there is an administrator, viewers are created by it.
CreatesViewer(v) ==
    /\ admins # {}
    /\ viewers' = viewers \cup {v}
    /\ UNCHANGED <<seed, lockHolder, admins>>

SeedNext ==
    \/ \E s \in Seeds :
         \/ Locks(s) \/ FirstInspects(s) \/ Hashes(s) \/ SecondInspects(s) \/ SeedFails(s)
         \/ \E e \in SeedEmails : RunsSeed(s, e)
    \/ \E v \in OtherUsers : CreatesViewer(v)

SeedSpec == SeedInit /\ [][SeedNext]_seedVars

----------------------------------------------------------------------------
\* However many bootstraps run at once, with whatever addresses, there is at most one
\* administrator, and the ones that answer that it is there, or that they created it,
\* were given its address.
OneAdministrator ==
    /\ Cardinality(admins) <= 1
    /\ \A s \in Seeds : seed[s].phase \in {"CREATED", "UNCHANGED"} => seed[s].email \in admins
=============================================================================
