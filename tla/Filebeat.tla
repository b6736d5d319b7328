------------------------------ MODULE Filebeat ------------------------------
(***************************************************************************)
(* Filebeat.Run from start to start: the event pipeline over files that    *)
(* grow, with a crash between any two steps.  A crash (a kill, a panic, a  *)
(* power loss) takes the channels, the spool and the offsets; the registry *)
(* file stays.  A signal is no crash: HandleSignals catches it and calls   *)
(* Stop, which does nothing.                                               *)
(*                                                                         *)
(* The sources are files the registry knows, at their own paths, with      *)
(* position 0 to begin with; Prospector shows what becomes of the others.  *)
(***************************************************************************)
EXTENDS EventPipeline

CONSTANTS Tailed,      \* the files whose prospector has tail_files
          MaxCrashes   \* bound: crashes of the process

ASSUME FilebeatAssumption == MaxCrashes \in Nat /\ Tailed \subseteq Sources

VARIABLES lines,     \* complete lines in the file of each source
          status,    \* what the first scan since the start made of each source
          crashes    \* history: how often the process has crashed

fvars == <<vars, lines, status, crashes>>

Statuses == {"unseen", "harvested", "left"}

FInit == /\ Init
         /\ lines = [s \in Sources |-> 0]
         /\ status = [s \in Sources |-> "unseen"]
         /\ crashes = 0

\* A program writes a line to its log.
WriteLine(s) ==
  /\ lines[s] < MaxLines
  /\ lines' = [lines EXCEPT ![s] = @ + 1]
  /\ UNCHANGED <<vars, status, crashes>>

\* A harvester sends the next complete line or, at the end of the file, the
\* beginning of an unfinished one.
Harvest(s) ==
  /\ status[s] = "harvested"
  /\ IF offset[s] < lines[s] THEN ShipLine(s) ELSE ShipPartial(s)
  /\ UNCHANGED <<spoolerVars, publisherChan, publisherVars, registrarChan,
                 registrarVars, lines, status, crashes>>

\* Fault: tail_files goes before what is recorded.
StartOffsetTails(s) == IF s \in Tailed THEN lines[s] ELSE positions[s]

\* Fault: fetchState answers 0 for a file it knows.
StartOffsetZero(s) == 0

\* The recorded position, to which setFileOffset seeks; 0 counts as none, and with
\* tail_files a file of which nothing is recorded is read from its end.
StartOffset(s) == IF positions[s] = 0 /\ s \in Tailed THEN lines[s] ELSE positions[s]

\* The first scan finds the file stale: fetchState resumes it, and its harvester opens it.
Resume(s) ==
  /\ status[s] = "unseen"
  /\ status' = [status EXCEPT ![s] = "harvested"]
  /\ offset' = [offset EXCEPT ![s] = StartOffset(s)]
  /\ givenUp' = givenUp \cup
       {<<s, n, "skipped">> : n \in positions[s] .. StartOffset(s) - 1}
  /\ UNCHANGED <<lastPartialLen, shipped, spoolChan, spoolerVars, publisherChan, batch,
                 publisherPc, output, published, registrarChan, registrarVars,
                 lines, crashes>>

\* The first scan finds the file recently written, and takes it for a renamed one that is
\* harvested; or its encoding is unknown.  Either way no harvester is started for it,
\* and its entry in the list of the prospector keeps all later scans from starting one.
LeaveAlone(s) ==
  /\ status[s] = "unseen"
  /\ status' = [status EXCEPT ![s] = "left"]
  /\ UNCHANGED <<vars, lines, crashes>>

\* The process ends and Run makes everything anew from the registry file.
CrashAndRestart ==
  /\ crashes < MaxCrashes
  /\ crashes' = crashes + 1
  /\ offset' = positions
  /\ lastPartialLen' = [s \in Sources |-> 0]
  /\ spoolChan' = <<>> /\ spool' = <<>> /\ tmpCopy' = <<>>
  /\ tick' = FALSE /\ overdue' = TRUE
  /\ publisherChan' = <<>> /\ batch' = <<>> /\ publisherPc' = "off"
  /\ registrarChan' = <<>>
  /\ shipped' = <<>> /\ acked' = <<>>
  /\ status' = [s \in Sources |-> "unseen"]
  /\ UNCHANGED <<positions, outputVars, lines>>

\* A step of the spooler, Publish or the registrar, or of the clock.
Stage == (Spooler \/ Clock \/ Publisher \/ RecordBatch)
           /\ UNCHANGED <<lines, status, crashes>>

FNext == \/ \E s \in Sources : WriteLine(s) \/ Resume(s) \/ LeaveAlone(s) \/ Harvest(s)
         \/ Stage
         \/ CrashAndRestart

FSafeSpec == FInit /\ [][FNext]_fvars

\* Every goroutine that can run is scheduled, and time passes; a scan comes to each
\* file, and a harvester finds the lines its file has.  Nothing says what a scan makes
\* of a file, that files grow or that the process crashes.
FSpec == /\ FSafeSpec
         /\ \A s \in Sources : /\ WF_fvars(Resume(s) \/ LeaveAlone(s))
                               /\ WF_fvars(Harvest(s) /\ offset[s] < lines[s])
         /\ WF_fvars(SpoolEvent /\ UNCHANGED <<lines, status, crashes>>)
         /\ WF_fvars(HandleTick /\ UNCHANGED <<lines, status, crashes>>)
         /\ WF_fvars(FlushSend /\ UNCHANGED <<lines, status, crashes>>)
         /\ WF_fvars(TickerFires /\ UNCHANGED <<lines, status, crashes>>)
         /\ WF_fvars(IdleTimeoutPasses /\ UNCHANGED <<lines, status, crashes>>)
         /\ WF_fvars(Publisher /\ UNCHANGED <<lines, status, crashes>>)
         /\ WF_fvars(RecordBatch /\ UNCHANGED <<lines, status, crashes>>)

-----------------------------------------------------------------------------
\* The lines whose documents the output has accepted.
Delivered == {l \in Sources \X (0 .. MaxLines - 1) : Published(l[1], l[2])}

\* No crash makes a position pass a line that filebeat owes to the output: each line
\* before it was accepted, or refused (finding 1), or passed over by tail_files while
\* nothing was recorded; positions only move on, from start to start
\* (filebeat.go:77-105,145-151, registrar.go:91-101, log.go:183-192).
Promise == INSTANCE Delivery WITH written <- lines, delivered <- Delivered,
                                  recorded <- positions
ImplementsDelivery == Promise!DSafeSpec

\* The line n of s is recorded, or was passed over by tail_files.
WorkedOff(s, n) == positions[s] > n \/ <<s, n, "skipped">> \in givenUp

\* The backlog of a file is worked off again and again: all the lines it then has are
\* worked off, also the last ones, which do not fill a spool, and whatever crashes took;
\* or the last start has left the file alone (spooler.go:66-72,107,
\* prospector.go:300-304).  A start that left it alone is no excuse after the next one.
EveryLineSettled ==
  \A s \in Sources :
    []<>(status[s] = "left" \/ \A n \in 0 .. lines[s] - 1 : WorkedOff(s, n))

\* A start sends again only what was not recorded: the output never gets a line that
\* the registry has passed by then (filebeat.go:91,103-105, registrar.go:91-101).
NothingRecordedAgain ==
  [][\A i \in DOMAIN published' \ DOMAIN published :
       published'[i].offset >= positions[published'[i].source]]_fvars
=============================================================================
