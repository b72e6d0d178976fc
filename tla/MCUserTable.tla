---------------------------- MODULE MCUserTable ----------------------------
(***************************************************************************)
(* Two requests at a time and two users, of whom u1 has an account; every  *)
(* kind of request.                                                        *)
(***************************************************************************)
EXTENDS UserTable

CONSTANTS r1, r2, u1, u2, v1, v2

MCRequest == {r1, r2}
MCUser == {u1, u2}
MCInitialUsers == <<u1>>
MCVersion == {v1, v2}
MCKind == {"login", "read", "signup", "save", "reset", "update"}
MCSaves == {"save"}

\* One request after the other
MCOneRequest == {r1}
MCSignupAndLogin == {"signup", "login"}
=============================================================================
