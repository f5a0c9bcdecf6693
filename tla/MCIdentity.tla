----------------------------- MODULE MCIdentity -----------------------------
(***************************************************************************)
(* Instances of Identity for TLC.  Emails and passwords are only compared, *)
(* logins and requests are interchangeable, so each is a symmetry set.     *)
(***************************************************************************)
EXTENDS Identity, TLC

DataSymmetry == Permutations(Emails) \cup Permutations(Passwords)

IdentitySymmetry ==
    DataSymmetry \cup Permutations(Logins) \cup Permutations(Requests) \cup Permutations(Viewers)

----------------------------------------------------------------------------
\* The instance for liveness, without symmetry.  It starts with one account of an earlier
\* release; a second one may be created later, with the same password, under whichever
\* email is free.  Only the first is renamed, reset, revoked, disabled and enabled.
Renamed == CHOOSE u \in Users : TRUE
FirstEmail == CHOOSE e \in Emails : TRUE
FirstPassword == CHOOSE p \in Passwords : TRUE

AnswersInit ==
    /\ Init
    /\ \A u \in Users :
         IF u = Renamed
         THEN /\ Exists(u)
              /\ user[u].email = FirstEmail
              /\ user[u].hash.pw = FirstPassword
              /\ user[u].hash.legacy
         ELSE ~Exists(u)

AnswersNext ==
    \/ Tick
    \/ \E l \in Logins : LoginBegins(l) \/ LoginStep(l)
    \/ \E r \in Requests : FindSession(r) \/ RequestStep(r)
    \/ AdminStep(Renamed)
    \/ \E u \in Users, e \in Emails : CreateViewer(u, e, FirstPassword)

AnswersSpec == AnswersInit /\ [][AnswersNext]_vars /\ Fairness
=============================================================================
