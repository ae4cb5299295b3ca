--------------------------------- MODULE Power --------------------------------
(***************************************************************************)
(* The power collector and the daemon it talks to (collectors/power.cpp).  *)
(* Two-letter commands go one way; answers, a length and measurements come *)
(* back as one stream of bytes without frames, and every wait for them has *)
(* a timeout.  init() connects and shakes hands, start() configures the    *)
(* daemon (RC) and starts it (RT), and postprocess(), which                *)
(* Collection::stop calls whether or not start() succeeded, stops it (OP). *)
(*                                                                         *)
(* The unit of the stream is two bytes; a unit of measurements is a row,   *)
(* the samples of all rails at one moment.  Units carry the session they   *)
(* belong to, which the code does not see.  The daemon is external: it     *)
(* answers in order and as late as it likes.                               *)
(***************************************************************************)
EXTENDS Sums, SequencesExt

CONSTANTS
  RailCounts,   \* possible numbers of rails start() finds: it looks under "power" in what
                \* init() has taken from there, so 0 unless the configuration repeats itself
  BufferRows,   \* rows that fit into the buffer (mBufferSize)
  Timings,      \* possible frame times handed to postprocess()
  MaxRows,      \* bound: rows the daemon measures in a session
  MaxSession,   \* bound: number of start() calls
  MaxErrors     \* bound: errors the daemon reports of its own accord

ASSUME PowerAssumption ==
  /\ RailCounts \subseteq Nat /\ BufferRows \in Nat
  /\ \A t \in Timings : t \in Seq(Nat)
  /\ MaxRows \in Nat /\ MaxSession \in Nat /\ MaxErrors \in Nat

VARIABLES
  \* the connection: whether the daemon is there, commands, units on their way and
  \* units that have come
  up, toDaemon, inFlight, toClient,
  \* the daemon: the session it measures, 0 for none, and errors it reported
  measuring, errors,
  \* the collector: rails in the configuration, and what the sessions recorded
  numRails, mCollecting, results,
  \* its position, the units a wait has received, and the rows it waits for
  pc, got, rows,
  outcome,
  \* history: session number, and whether something happened that the protocol does
  \* not recover from
  session, upset

streamVars == <<up, toDaemon, inFlight, toClient>>
daemonVars == <<measuring, errors>>
collectorVars == <<numRails, mCollecting, results>>
waitVars == <<pc, got, rows>>
vars == <<streamVars, daemonVars, collectorVars, waitVars, outcome, session, upset>>

\* Waits for an answer to a command, for an error report, for a length and for data.
Waiting == {"H2", "RC", "RT", "drain", "OP", "length", "data"}

Init ==
  /\ up = FALSE /\ toDaemon = <<>> /\ inFlight = <<>> /\ toClient = <<>>
  /\ measuring = 0 /\ errors = 0
  /\ numRails \in RailCounts /\ mCollecting = FALSE /\ results = <<>>
  /\ pc = "off" /\ got = <<>> /\ rows = 0
  /\ outcome = "ok"
  /\ session = 0 /\ upset = FALSE

At(where) == outcome = "ok" /\ pc = where

-------------------------------------------------------------------------------
(* The daemon and the network.                                                 *)

Unit(kind) == [kind |-> kind, session |-> toDaemon[1].session, rows |-> 0]
Reply(units) == inFlight' = inFlight \o units

\* It serves a command; RC and RT may fail, and OP does without a measurement.
Serve ==
  /\ up /\ toDaemon # <<>>
  /\ toDaemon' = Tail(toDaemon)
  /\ \/ /\ toDaemon[1].cmd \in {"H2", "RC"}
        /\ Reply(<<Unit("OK")>>) /\ UNCHANGED measuring
     \/ /\ toDaemon[1].cmd = "RT"
        /\ Reply(<<Unit("OK")>>) /\ measuring' = toDaemon[1].session
     \/ /\ toDaemon[1].cmd \in {"RC", "RT"} \/ (toDaemon[1].cmd = "OP" /\ measuring = 0)
        /\ Reply(<<Unit("ER")>>) /\ UNCHANGED measuring
     \/ /\ toDaemon[1].cmd = "OP" /\ measuring # 0
        /\ \E n \in 0..MaxRows :
             Reply(<<Unit("OK"), [Unit("high") EXCEPT !.rows = n], Unit("low")>>
                     \o [k \in 1..n |-> Unit("row")])
        /\ measuring' = 0
  /\ UNCHANGED <<up, toClient, errors, collectorVars, waitVars, outcome, session, upset>>

\* It reports an error during a measurement and ends it.  If stop() has looked for
\* errors already, it will take the report for the answer to OP.
Error ==
  /\ up /\ measuring # 0 /\ errors < MaxErrors
  /\ inFlight' = Append(inFlight, [kind |-> "ER", session |-> measuring, rows |-> 0])
  /\ measuring' = 0 /\ errors' = errors + 1
  /\ upset' = (upset \/ pc = "OP")
  /\ UNCHANGED <<up, toDaemon, toClient, collectorVars, waitVars, outcome, session>>

Deliver ==
  /\ inFlight # <<>>
  /\ toClient' = Append(toClient, inFlight[1])
  /\ inFlight' = Tail(inFlight)
  /\ UNCHANGED <<up, toDaemon, daemonVars, collectorVars, waitVars, outcome, session, upset>>

Close ==
  /\ up
  /\ up' = FALSE /\ toDaemon' = <<>> /\ inFlight' = <<>> /\ measuring' = 0
  /\ upset' = TRUE
  /\ UNCHANGED <<toClient, errors, collectorVars, waitVars, outcome, session>>

-------------------------------------------------------------------------------
(* sendMsg, receiveMsg, receiveSyncMsg.                                        *)

\* Send a command of session `number' and wait for its answer.  Without a daemon the write may seem to
\* succeed, be refused, or raise SIGPIPE, which nobody handles.
Send(cmd, number, refused) ==
  /\ got' = <<>>
  /\ \/ /\ up /\ toDaemon' = Append(toDaemon, [cmd |-> cmd, session |-> number])
        /\ pc' = cmd /\ UNCHANGED outcome
     \/ /\ ~up /\ pc' \in {cmd, refused} /\ UNCHANGED <<toDaemon, outcome>>
     \/ /\ ~up /\ outcome' = "sigpipe" /\ UNCHANGED <<toDaemon, pc>>

Wanted == CASE pc = "length" -> 2
            [] pc = "data"   -> rows
            [] OTHER         -> 1

ReceiveUnit ==
  /\ outcome = "ok" /\ pc \in Waiting /\ Len(got) < Wanted /\ toClient # <<>>
  /\ got' = Append(got, toClient[1])
  /\ toClient' = Tail(toClient)
  /\ UNCHANGED <<up, toDaemon, inFlight, daemonVars, collectorVars, pc, rows, outcome,
                 session, upset>>

Received(where) == At(where) /\ Len(got) = Wanted

\* poll() finds nothing in time, or the connection is gone.
WithoutTimeout(where) == At(where) /\ Len(got) < Wanted /\ ~up
TimedOut(where) == At(where) /\ Len(got) < Wanted /\ (toClient = <<>> \/ ~up)

Synced(where) == Received(where) /\ got[1].kind = "OK"
Refused(where) == Received(where) /\ got[1].kind # "OK"

-------------------------------------------------------------------------------
(* init and deinit.                                                            *)

\* connectToDaemon succeeds and the handshake is sent; if it fails nothing remains.
Connect ==
  /\ At("off") /\ session = 0
  /\ up' = TRUE
  /\ toDaemon' = <<[cmd |-> "H2", session |-> 0]>>
  /\ pc' = "H2" /\ got' = <<>>
  /\ upset' = FALSE
  /\ UNCHANGED <<inFlight, toClient, daemonVars, collectorVars, rows, outcome, session>>

Handshake ==
  /\ Synced("H2")
  /\ pc' = "ready" /\ got' = <<>>
  /\ UNCHANGED <<streamVars, daemonVars, collectorVars, rows, outcome, session, upset>>

\* The connection goes, and all that was under way with it.
disconnect ==
  /\ up' = FALSE /\ toDaemon' = <<>> /\ inFlight' = <<>> /\ toClient' = <<>>
  /\ measuring' = 0

HandshakeFailed ==
  /\ TimedOut("H2")
  /\ disconnect
  /\ pc' = "off" /\ got' = <<>>
  /\ UNCHANGED <<errors, collectorVars, rows, outcome, session, upset>>

deinit ==
  /\ At("ready")
  /\ disconnect
  /\ pc' = "deleted"
  /\ UNCHANGED <<errors, collectorVars, got, rows, outcome, session, upset>>

-------------------------------------------------------------------------------
(* start.  A session is open after it even if it failed.                        *)

start ==
  /\ At("ready") /\ session < MaxSession
  /\ session' = session + 1
  /\ Send("RC", session + 1, "session")
  /\ UNCHANGED <<up, inFlight, toClient, daemonVars, collectorVars, rows, upset>>

Configured ==
  /\ Synced("RC")
  /\ Send("RT", session, "session")
  /\ UNCHANGED <<up, inFlight, toClient, daemonVars, collectorVars, rows, session, upset>>

Started ==
  /\ Synced("RT")
  /\ mCollecting' = TRUE
  /\ pc' = "session" /\ got' = <<>>
  /\ UNCHANGED <<streamVars, daemonVars, numRails, results, rows, outcome, session, upset>>

\* A command was refused, or its answer will come late.
StartFailed ==
  /\ \E cmd \in {"RC", "RT"} : \/ Refused(cmd) /\ UNCHANGED upset
                               \/ TimedOut(cmd) /\ upset' = TRUE
  /\ pc' = "session" /\ got' = <<>>
  /\ UNCHANGED <<streamVars, daemonVars, collectorVars, rows, outcome, session>>

-------------------------------------------------------------------------------
(* stop (of PowerDaemon, in postprocess).                                       *)

StopAtOnce ==
  /\ At("session")
  /\ mCollecting' = FALSE
  /\ Send("OP", session, "ready")
  /\ UNCHANGED <<up, inFlight, toClient, daemonVars, numRails, results, rows, session, upset>>
Drain ==
  /\ At("session")
  /\ mCollecting' = FALSE
  /\ pc' = "drain" /\ got' = <<>>
  /\ UNCHANGED <<streamVars, daemonVars, numRails, results, rows, outcome, session, upset>>

\* The error check comes to nothing within 10 ms, or finds something else than ER.  A
\* report that is still on its way will be taken for the answer to OP.
SendStop ==
  /\ TimedOut("drain") \/ (Received("drain") /\ got[1].kind # "ER")
  /\ upset' = (upset \/ (got = <<>> /\ inFlight # <<>>))
  /\ Send("OP", session, "ready")
  /\ UNCHANGED <<up, inFlight, toClient, daemonVars, collectorVars, rows, session>>

Drained ==
  /\ Received("drain") /\ got[1].kind = "ER"
  /\ pc' = "ready" /\ got' = <<>>
  /\ UNCHANGED <<streamVars, daemonVars, collectorVars, rows, outcome, session, upset>>

AwaitLength ==
  /\ Synced("OP")
  /\ pc' = "length" /\ got' = <<>>
  /\ UNCHANGED <<streamVars, daemonVars, collectorVars, rows, outcome, session, upset>>

\* Two units that are not the halves of one length give any number.
Lengths ==
  IF got[1].kind = "high" /\ got[2].kind = "low" THEN {got[1].rows} ELSE 0..BufferRows+1

AwaitData ==
  /\ Received("length")
  /\ \E n \in Lengths :
       /\ n <= BufferRows
       /\ rows' = n
  /\ pc' = "data" /\ got' = <<>>
  /\ UNCHANGED <<streamVars, daemonVars, collectorVars, outcome, session, upset>>

\* "too much data - discarding": the call returns and the data stays in the stream.
TooMuch ==
  /\ Received("length")
  /\ \E n \in Lengths : n > BufferRows
  /\ upset' = TRUE
  /\ pc' = "ready" /\ got' = <<>>
  /\ UNCHANGED <<streamVars, daemonVars, collectorVars, rows, outcome, session>>

StopFailed ==
  /\ \/ Refused("OP") /\ UNCHANGED upset
     \/ \E wait \in {"OP", "length", "data"} : TimedOut(wait) /\ upset' = TRUE
  /\ pc' = "ready" /\ got' = <<>>
  /\ UNCHANGED <<streamVars, daemonVars, collectorVars, rows, outcome, session>>

\* The samples of every frame.  timing holds the durations of frames, of which the code
\* takes differences and adds them up again, so a frame ends at its own duration; a frame
\* without samples is left out, and the data may stop short.
NextFrame(acc, end) ==
  IF acc.short \/ end <= acc.time
  THEN acc
  ELSE IF numRails > 0 /\ end > rows
       THEN [acc EXCEPT !.short = TRUE]
       ELSE [acc EXCEPT !.time = end, !.samples = Append(@, end - acc.time)]

FramesUpTo(timing) ==
  LET upTo[k \in 0..Len(timing)] ==
        IF k = 0 THEN [time |-> 0, samples |-> <<>>, short |-> FALSE]
        ELSE NextFrame(upTo[k - 1], timing[k])
  IN  upTo

Frames(timing) == FramesUpTo(timing)[Len(timing)]

\* Without rails the message about extra samples divides by 0, which traps or not.
Decode ==
  /\ Received("data")
  /\ \E timing \in Timings :
       /\ results' = Append(results, [session |-> session, of |-> {u.session : u \in ToSet(got)},
                                      rows |-> rows, samples |-> Frames(timing).samples])
       /\ \/ ~Frames(timing).short /\ numRails = 0 /\ outcome' = "div_by_zero"
          \/ UNCHANGED outcome
  /\ pc' = "ready" /\ got' = <<>>
  /\ UNCHANGED <<streamVars, daemonVars, numRails, mCollecting, rows, session, upset>>

-------------------------------------------------------------------------------
Daemon == Serve \/ Error \/ Deliver \/ Close

Call == \/ ReceiveUnit \/ Handshake \/ HandshakeFailed
        \/ Configured \/ Started \/ StartFailed
        \/ SendStop \/ Drained \/ AwaitLength \/ AwaitData \/ TooMuch \/ StopFailed \/ Decode

Client == Connect \/ start \/ Drain \/ deinit

Next == Daemon \/ Call \/ Client

Spec == Init /\ [][Next]_vars

\* A call that was made goes on: timeouts pass.  Nothing is assumed of the daemon.
FairSpec == Spec /\ WF_vars(Call)

-------------------------------------------------------------------------------
\* As long as every answer came before its timeout, no error report crossed OP, nothing
\* was too large and the daemon stayed, the two sides are in step, whatever was refused:
\* between sessions nothing is unread or unanswered, a collector that collects has a daemon
\* that measures this session or has said that it failed, and what a session records was
\* measured in it, no row counted twice.
InStep ==
  ~upset =>
     /\ At("ready") => toDaemon = <<>> /\ inFlight = <<>> /\ toClient = <<>>
     /\ mCollecting => \/ measuring = session
                       \/ \E u \in ToSet(inFlight \o toClient) : u.kind = "ER" /\ u.session = session
     /\ \A i \in DOMAIN results :
          /\ results[i].of \subseteq {results[i].session}
          /\ numRails > 0 => SumSeq(results[i].samples) <= results[i].rows

\* init(), start() and postprocess() come back, whatever the daemon does or fails to do.
CallsReturn == [](pc \in Waiting => <>(pc \notin Waiting \/ outcome # "ok"))
===============================================================================
