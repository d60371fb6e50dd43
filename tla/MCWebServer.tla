---------------------------- MODULE MCWebServer -----------------------------
(* One connection and four changes of the state: three events of progress, *)
(* so that a timer is replaced while it runs and while the callback of its *)
(* predecessor waits for writeMu, and the final status.  Or two            *)
(* connections and two changes, where the limit is one: the second is      *)
(* admitted before the first has registered, or after it has gone.         *)
EXTENDS WebServer

Changes == [n \in 0..Connections |-> IF n = 1 THEN 4 ELSE 2]
=============================================================================
