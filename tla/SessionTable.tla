---------------------------- MODULE SessionTable ----------------------------
(***************************************************************************)
(* What the panel promises about login sessions, apart from how it stores  *)
(* them.  A token is opened at most once; a session that has ended, for    *)
(* whatever reason, never comes back; and the sessions a logout or a       *)
(* revocation has been answered for are over.                              *)
(***************************************************************************)
CONSTANT Tokens

VARIABLES
    valid,      \* the tokens a request may use now
    used,       \* the tokens ever handed to a client
    told        \* the tokens an answered logout or revocation has ended

vars == <<valid, used, told>>

Init == valid = {} /\ used = {} /\ told = {}

\* The new session may be over before its token is handed out.
Open(t) ==
    /\ t \notin used
    /\ used' = used \union {t}
    /\ valid' \in {valid, valid \union {t}}
    /\ UNCHANGED told

End(S) ==
    /\ valid' = valid \ S
    /\ UNCHANGED <<used, told>>

\* The answer to a logout or a revocation; the request may have been what ended them.
Promise(S) ==
    /\ S \subseteq used
    /\ told' = told \union S
    /\ valid' \subseteq valid \ S
    /\ UNCHANGED used

Next ==
    \/ \E t \in Tokens : Open(t)
    \/ \E S \in SUBSET Tokens : End(S) \/ Promise(S)

Spec == Init /\ [][Next]_vars
=============================================================================
