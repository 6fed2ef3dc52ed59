--------------------------- MODULE MCIdentityCache ---------------------------
(* Model-checking instance of IdentityCache: two pods that can reuse one   *)
(* IP, one of them selected by both services.                              *)
EXTENDS IdentityCache, TLC

\* One pod behind one service, the other behind both.
MCMember == [p \in Pods |-> IF p = CHOOSE q \in Pods : TRUE
                            THEN {CHOOSE s \in Services : TRUE}
                            ELSE Services]

=============================================================================
