------------------------------ MODULE MCStopping ------------------------------
(* Whoever stops a collection waits for its threads: burrow for ferret's, stop() *)
(* for those of every collector.  Ferret or Collection in each behaviour; they   *)
(* share nothing, so their state spaces add up.                                  *)
EXTENDS Ferret

CONSTANTS
  a, b, p, n,
  mCollectors, Keys, Precision, JsonThreaded, JsonRequired, JsonMembers, Requests,
  ClientThreaded, EnablePerapi, FrameTimes, MaxSession, MaxFrames, MaxSamples, MaxSummaries

VARIABLES
  kind,
  mRunning, running, mTiming, mTimingSummarized, list, summaries, made, mIsSummarized,
  inited, mIsThreaded, isCollecting, isFinished, thread, call, names, tmp, outcome,
  initOk, session, startFailed, lossy

Sessions == INSTANCE Collection WITH mCollecting <- isCollecting, finished <- isFinished

sessionVars ==
  <<mRunning, running, mTiming, mTimingSummarized, list, summaries, made, mIsSummarized,
    inited, mIsThreaded, isCollecting, isFinished, thread, call, names, tmp, outcome,
    initOk, session, startFailed, lossy>>
allVars == <<kind, vars, sessionVars>>

\* Two collectors with one key each; p is threaded by its configuration.
Registered == <<p, n>>
Configured == <<p>>
AskMixed == {<<>>, <<n, n, p>>}
OneKey == [c \in {p, n} |-> {1}]

\* The part a behaviour is not about rests in its initial state.
MCInit == kind \in {"ferret", "collection"} /\ Init /\ Sessions!Init

FerretStep(A) == kind = "ferret" /\ A /\ UNCHANGED <<kind, sessionVars>>
SessionStep(A) == kind = "collection" /\ A /\ UNCHANGED <<kind, vars>>

MCNext == FerretStep(Next) \/ SessionStep(Sessions!Next)

\* The fairness of both.
MCSpec ==
  /\ MCInit /\ [][MCNext]_allVars
  /\ WF_allVars(FerretStep(Sampler)) /\ WF_allVars(FerretStep(Burrow))
  /\ WF_allVars(FerretStep(Elapse))
  /\ WF_allVars(SessionStep(Sessions!InCall))
  /\ \A c \in Sessions!Collectors : WF_allVars(SessionStep(Sessions!Sampler(c)))

-------------------------------------------------------------------------------
\* Every stop() (interface.cpp:422) comes back, or ends the process: see Collection.
StopReturns == Sessions!StopReturns
===============================================================================
