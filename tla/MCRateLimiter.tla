--------------------------- MODULE MCRateLimiter ---------------------------
(***************************************************************************)
(* Instances of RateLimiter for TLC.                                       *)
(***************************************************************************)
EXTENDS RateLimiter, TLC

CONSTANTS s1, s2, u1, c1, c2, c3, c4, a, b

\* Two sessions of one user, so that both limits bind at different times.
OneUser == s1 :> u1 @@ s2 :> u1

Config(window, cap) ==
    [session |-> [max |-> 2, window |-> window],
     user |-> [max |-> 3, window |-> 3],
     cap |-> cap]

\* A save may change the cap and the window of a session.
TwoConfigs == {Config(1, 1), Config(2, 2)}

\* The windows and the slots share nothing but the configuration: a behaviour
\* that asks for admission takes no slots, and one that takes slots asks for
\* no admission and has no use for the clock.
Apart ==
    \/ slot = [c \in Calls |-> NoServer] /\ refused = {}
         /\ carried = [s \in Servers |-> 0]
         /\ concurrency = [s \in Servers |-> 0]
    \/ requests = 0 /\ now = 0

ServerSymmetry == Permutations({a, b})
CallSymmetry == Permutations({c1, c2, c3, c4})
Symmetry == ServerSymmetry \cup CallSymmetry
=============================================================================
