------------------------------ MODULE MCStore -------------------------------
(* The handler of a connection and a session goroutine that it starts publish at the same
   time; one subscriber (the store), small channel and batch. *)
EXTENDS Store, TLC

CONSTANTS handler, session

MCProducers == {handler, session}
MCSubscribers == {store}
MCStarter == handler :> handler @@ session :> handler
=============================================================================
