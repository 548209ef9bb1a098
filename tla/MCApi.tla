-------------------------------- MODULE MCApi --------------------------------
(***************************************************************************)
(* Instances of Api for TLC.                                               *)
(***************************************************************************)
EXTENDS Api, TLC

CONSTANTS w1, w2, r1, r2, r3, r4, ann, bob, an, bn, secret, other

MCRegister(w, email, username, password) ==
    [op |-> "register", worker |-> w, email |-> email, username |-> username,
     password |-> password]
MCLogin(w, email, password) ==
    [op |-> "login", worker |-> w, email |-> email, password |-> password]
MCSolve(w, token) == [op |-> "solve", worker |-> w, token |-> token]
MCUpload(w, token, image) ==
    [op |-> "ocr", worker |-> w, image |-> image, token |-> token]

MCScenario(a, b, c, d) == r1 :> a @@ r2 :> b @@ r3 :> c @@ r4 :> d

MCScenarios ==
    { \* Registrations that clash pairwise in email, in one worker, and in
      \* username, across workers.
      MCScenario(MCRegister(w1, ann, an, secret), MCRegister(w1, ann, bn, other),
                 MCRegister(w2, bob, an, secret), MCLogin(w2, ann, secret)),
      \* Solves of one user hold the connections others wait for.
      MCScenario(MCRegister(w2, ann, an, secret), MCSolve(w1, r1), MCSolve(w1, r1),
                 MCLogin(w1, ann, other)),
      \* Uploads of one user, with two tokens.
      MCScenario(MCRegister(w2, ann, an, secret), MCUpload(w1, r1, "ok"),
                 MCUpload(w1, r4, "ok"), MCLogin(w2, ann, secret)),
      \* Uploads of two users.
      MCScenario(MCRegister(w1, ann, an, secret), MCUpload(w1, r1, "large"),
                 MCUpload(w2, r4, "broken"), MCRegister(w1, bob, bn, secret)) }

\* The second upload of a user is let through, the second solve is not.
MCLimits == [ocr |-> 2, solve |-> 1]
=============================================================================
