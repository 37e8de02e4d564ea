-------------------------------- MODULE Stream --------------------------------
(***************************************************************************)
(* Module Worker together with its audience: the WebSocket handlers of      *)
(* api/main.py (ws_progress) and the results pages behind them              *)
(* (frontend/src/hooks/useBacktestWs.ts).                                   *)
(*                                                                         *)
(* A handler subscribes to the run's channel, reads the run's hash, sends   *)
(* the status it read, and then forwards what the channel brings until a    *)
(* terminal message.  A message sent is a message shown: the delay of the   *)
(* connection itself is left out.                                          *)
(***************************************************************************)
EXTENDS Worker

VARIABLES
  ws,              \* where each handler is
  host,            \* the process that holds the connection
  topic,           \* the run the client asked for
  current,         \* the status read from the hash; "" when there was no key
  page             \* the page: its status, whether it has a result, is open

stream_vars == <<ws, host, topic, current, page>>
all_vars == <<vars, stream_vars>>
worker_but_redis == <<hash, expires, backtest_queue, announced, home, task, progress_vars,
                      thread_vars, fate, deleted>>

Ended(status) == status \in {"complete", "failed"}

StreamInit ==
  /\ Init
  /\ ws = [c \in Clients |-> "none"]
  /\ host \in [Clients -> Processes]
  /\ topic \in [Clients -> Runs]
  /\ current = [c \in Clients |-> ""]
  /\ page = [c \in Clients |-> [status |-> "pending", result |-> FALSE, open |-> TRUE]]

-----------------------------------------------------------------------------
(* ws_progress.                                                             *)

\* The page of a run opens once its POST has answered, or from the dashboard.
Connect(c) ==
  /\ ws[c] = "none" /\ task[topic[c]] \notin {"none", "refused"}
  /\ LockFree(host[c])
  /\ ws' = [ws EXCEPT ![c] = "subscribed"]
  /\ channel' = [channel EXCEPT ![topic[c]] = @ \cup {c}]
  /\ UNCHANGED <<worker_but_redis, inbox, host, topic, current, page>>

ReadStatus(c) ==
  /\ ws[c] = "subscribed" /\ LockFree(host[c])
  /\ ws' = [ws EXCEPT ![c] = "read"]
  /\ current' = [current EXCEPT ![c] = IF hash[topic[c]] = NoKey THEN ""
                                       ELSE hash[topic[c]]["status"]]
  /\ UNCHANGED <<vars, host, topic, page>>

\* Mutant: the handler ends and stays subscribed.
UnsubscribeForgotten(c) ==
  ws' = [ws EXCEPT ![c] = "closed"] /\ UNCHANGED channel

\* The finally block.
Unsubscribe(c) ==
  /\ ws' = [ws EXCEPT ![c] = "closed"]
  /\ channel' = [channel EXCEPT ![topic[c]] = @ \ {c}]

\* Sending to a page that has gone ends the handler.
SendStatus(c) ==
  /\ ws[c] = "read" /\ LockFree(host[c])
  /\ IF current[c] # "" /\ ~page[c].open
     THEN Unsubscribe(c) /\ UNCHANGED page
     ELSE /\ ws' = [ws EXCEPT ![c] = "streaming"]
          /\ page' = IF current[c] = "" THEN page
                     ELSE [page EXCEPT ![c].status = current[c]]
          /\ UNCHANGED channel
  /\ UNCHANGED <<worker_but_redis, inbox, host, topic, current>>

\* Mutant: the hook's switch has no case for errors.
ShownNoErrors(shown, type) ==
  CASE type \in {"status", "progress"} -> [shown EXCEPT !.status = "running"]
    [] type = "complete" -> [status |-> "complete", result |-> TRUE, open |-> FALSE]
    [] OTHER -> shown

\* onmessage: what a page shows after a message; a terminal one closes it.
Shown(shown, type) ==
  CASE type \in {"status", "progress"} -> [shown EXCEPT !.status = "running"]
    [] type = "complete" -> [status |-> "complete", result |-> TRUE, open |-> FALSE]
    [] type = "error"    -> [shown EXCEPT !.status = "failed", !.open = FALSE]

\* Mutant: the handler goes on listening after the terminal message.
ForwardForever(c) ==
  /\ ws[c] = "streaming" /\ inbox[c] # <<>> /\ LockFree(host[c])
  /\ page' = IF page[c].open THEN [page EXCEPT ![c] = Shown(@, Head(inbox[c]))] ELSE page
  /\ inbox' = [inbox EXCEPT ![c] = Tail(@)]
  /\ UNCHANGED <<worker_but_redis, channel, ws, host, topic, current>>

Forward(c) ==
  /\ ws[c] = "streaming" /\ inbox[c] # <<>> /\ LockFree(host[c])
  /\ LET type == Head(inbox[c])
     IN  /\ page' = IF page[c].open THEN [page EXCEPT ![c] = Shown(@, type)] ELSE page
         /\ IF ~page[c].open \/ type \in {"complete", "error"}
            THEN Unsubscribe(c) ELSE UNCHANGED <<ws, channel>>
  /\ inbox' = [inbox EXCEPT ![c] = Tail(@)]
  /\ UNCHANGED <<worker_but_redis, host, topic, current>>

\* A Redis error in subscribe, hgetall or listen ends the handler, and with
\* its connection to Redis goes its subscription; the server closes the socket.
HandlerFails(c) ==
  /\ RedisMayFail /\ LockFree(host[c])
  /\ \/ ws[c] = "none" /\ task[topic[c]] \notin {"none", "refused"}
     \/ ws[c] \in {"subscribed", "streaming"}
  /\ Unsubscribe(c)
  /\ page' = [page EXCEPT ![c].open = FALSE]
  /\ UNCHANGED <<worker_but_redis, inbox, host, topic, current>>

\* The user goes elsewhere: the hook closes the socket.
Leave(c) ==
  /\ ws[c] # "none" /\ page[c].open
  /\ page' = [page EXCEPT ![c].open = FALSE]
  /\ UNCHANGED <<vars, ws, host, topic, current>>

\* A process that dies drops its connections; the hook does not reconnect.
RestartAll(p) ==
  LET gone == {c \in Clients : host[c] = p /\ ws[c] \notin {"none", "closed"}}
  IN  /\ Restart(p)
      /\ channel' = [r \in Runs |-> channel[r] \ gone]
      /\ ws' = [c \in Clients |-> IF c \in gone THEN "closed" ELSE ws[c]]
      /\ page' = [c \in Clients |-> IF c \in gone THEN [page[c] EXCEPT !.open = FALSE]
                                                  ELSE page[c]]
      /\ UNCHANGED <<host, topic, current>>

-----------------------------------------------------------------------------
ClientStep(c) == ReadStatus(c) \/ SendStatus(c) \/ Forward(c)

RunStep(r) ==
  /\ \/ HandlerStep(r) \/ TaskStep(r) \/ ProgressStep(r)
     \/ EngineStep(r) \/ DeleteBacktest(r) \/ KeyExpires(r)
  /\ UNCHANGED stream_vars

StreamNext ==
  \/ \E r \in Runs : RunStep(r)
  \/ \E c \in Clients : Connect(c) \/ ClientStep(c) \/ HandlerFails(c) \/ Leave(c)
  \/ \E p \in Processes : RestartAll(p)

StreamSpec == StreamInit /\ [][StreamNext]_all_vars

StreamFairSpec ==
  /\ StreamSpec /\ Fairness
  /\ \A c \in Clients : WF_all_vars(ClientStep(c))

-----------------------------------------------------------------------------
(* Properties.                                                              *)

Live(c) == ws[c] \in {"subscribed", "read", "streaming"}

\* The types, and a handler is subscribed to its own run's channel, and to no
\* other, exactly as long as it lives.
StreamTypeOK ==
  /\ TypeOK
  /\ ws \in [Clients -> {"none", "subscribed", "read", "streaming", "closed"}]
  /\ host \in [Clients -> Processes] /\ topic \in [Clients -> Runs]
  /\ current \in [Clients -> Status \cup {""}]
  /\ page \in [Clients -> [status : Status, result : BOOLEAN, open : BOOLEAN]]
  /\ \A c \in Clients, r \in Runs : c \in channel[r] <=> topic[c] = r /\ Live(c)

\* A page that connects before the end of its run is announced sees that end
\* or is closed: the handler subscribes before it reads the status
\* (main.py:305-309), so that nothing is missed in between.
EarlyClientsSeeTheEnd ==
  \A c \in Clients :
    Live(c) /\ announced[topic[c]] = <<>> ~>
      Ended(page[c].status) \/ ~page[c].open

\* Such a handler is also released, even when its page has left: the terminal
\* message, or the failure to send it, ends the loop (main.py:319-334).
EarlyHandlersClose ==
  \A c \in Clients : Live(c) /\ announced[topic[c]] = <<>> ~> ws[c] = "closed"
=============================================================================
