------------------------------ MODULE StoreFile -----------------------------
(***************************************************************************)
(* The store file: write_store_atomic, step by step, with any number of    *)
(* threads in it at once and a process that may be killed between any two  *)
(* steps.  Nothing in the code keeps two threads apart: they share the     *)
(* name of the temporary file.                                             *)
(*                                                                         *)
(* A thread that has opened the temporary keeps writing to the file it     *)
(* opened, whatever becomes of its name.  A stream is therefore described  *)
(* by the name its file has at present: temporary, destination or none.    *)
(*                                                                         *)
(* The file system is that of POSIX: a rename onto an existing file        *)
(* replaces it, and a rename fails only when its source is missing.  Power *)
(* failure is not modelled: the code flushes the stream and does not sync. *)
(***************************************************************************)
EXTENDS FiniteSets

CONSTANTS
  Sessions,     \* sessions, each a thread that may save
  Encodings,    \* what encode_durable_state may produce
  DiskMayFail   \* whether opening or writing the temporary may fail

VARIABLES
  destination,  \* the file at the store path
  temporary,    \* the file at the store path with ".tmp" appended
  saver         \* per thread: its step, the bytes it saves, its open stream

storeVars == <<destination, temporary, saver>>

NoFile == <<>>                 \* the name does not exist
Truncated == <<"truncated">>   \* opened with trunc, not yet written
Mixed == <<"mixed">>           \* written by two threads, neither text complete
NoBytes == <<>>

ASSUME EncodingsAssumption ==
  /\ DiskMayFail \in BOOLEAN
  /\ \A c \in {NoFile, Truncated, Mixed, NoBytes} : c \notin Encodings

Steps == {"idle", "open", "write", "rename", "remove", "retry", "discard",
          "saved", "failed"}
Idle == [step |-> "idle", bytes |-> NoBytes, stream |-> "none"]

StoreTypeOK ==
  /\ destination \in Encodings \cup {NoFile, Truncated, Mixed}
  /\ temporary \in Encodings \cup {NoFile, Truncated, Mixed}
  /\ saver \in [Sessions -> [step : Steps, bytes : Encodings \cup {NoBytes},
                           stream : {"none", "temporary", "destination", "unnamed"}]]

StoreInit ==
  /\ destination = NoFile /\ temporary = NoFile
  /\ saver = [s \in Sessions |-> Idle]

At(s, step) == saver[s].step = step

\* The encoding is taken, under the shared lock; writing it needs no lock.
BeginSave(s, bytes) ==
  /\ At(s, "idle")
  /\ saver' = [saver EXCEPT ![s] = [step |-> "open", bytes |-> bytes, stream |-> "none"]]
  /\ UNCHANGED <<destination, temporary>>

\* Seeded fault: the destination itself is opened and truncated.
OpenDestination(s) ==
  /\ At(s, "open")
  /\ destination' = Truncated
  /\ saver' = [saver EXCEPT ![s].step = "write", ![s].stream = "destination"]
  /\ UNCHANGED temporary

\* The ofstream constructor with trunc: the file another thread writes is
\* emptied and shared, not replaced.
OpenTemporary(s) ==
  /\ At(s, "open")
  /\ temporary' = Truncated
  /\ saver' = [saver EXCEPT ![s].step = "write", ![s].stream = "temporary"]
  /\ UNCHANGED destination

OpenFails(s) ==
  /\ DiskMayFail /\ At(s, "open")
  /\ saver' = [saver EXCEPT ![s].step = "failed"]
  /\ UNCHANGED <<destination, temporary>>

\* Writing from the start of a file: over the bytes of another thread the
\* longer of the two texts shows.
Overwritten(content, bytes) ==
  IF content = Truncated THEN {bytes} ELSE {bytes, Mixed}

\* write, flush and the end of the stream's scope.
WriteTemporary(s) ==
  /\ At(s, "write")
  /\ temporary' \in IF saver[s].stream = "temporary"
                    THEN Overwritten(temporary, saver[s].bytes) ELSE {temporary}
  /\ destination' \in IF saver[s].stream = "destination"
                      THEN Overwritten(destination, saver[s].bytes) ELSE {destination}
  /\ saver' = [saver EXCEPT ![s].step = "rename", ![s].stream = "none"]

\* The streams of all threads after the temporary has got another name, or
\* none, and the file that had that name has lost it.
StreamRenamed(stream, name) ==
  IF stream = "temporary" THEN name
  ELSE IF stream = name THEN "unnamed" ELSE stream

Renamed(name) ==
  [t \in Sessions |->
     [saver[t] EXCEPT !.stream = StreamRenamed(saver[t].stream, name)]]

RemoveTemporary(s, step) ==
  /\ temporary' = NoFile
  /\ saver' = [Renamed("unnamed") EXCEPT ![s].step = step, ![s].stream = "none"]
  /\ UNCHANGED destination

WriteFails(s) ==
  /\ DiskMayFail /\ At(s, "write")
  /\ RemoveTemporary(s, "failed")

\* rename, at first or after the destination was removed.
RenameTemporary(s) ==
  /\ At(s, "rename") \/ At(s, "retry")
  /\ IF temporary # NoFile
     THEN /\ destination' = temporary
          /\ temporary' = NoFile
          /\ saver' = [Renamed("destination") EXCEPT ![s].step = "saved"]
     ELSE /\ saver' = [saver EXCEPT ![s].step =
                IF At(s, "rename") THEN "remove" ELSE "discard"]
          /\ UNCHANGED <<destination, temporary>>

\* The first rename failed: the destination is taken for the reason.
RemoveDestination(s) ==
  /\ At(s, "remove")
  /\ destination' = NoFile
  /\ saver' = [t \in Sessions |->
       IF t = s THEN [saver[t] EXCEPT !.step = "retry"]
       ELSE [saver[t] EXCEPT !.stream = IF @ = "destination" THEN "unnamed" ELSE @]]
  /\ UNCHANGED temporary

\* The second rename failed too: the temporary is removed, whosever it is.
DiscardTemporary(s) ==
  /\ At(s, "discard")
  /\ RemoveTemporary(s, "failed")

\* The result has been read by the caller of save.
EndSave(s) ==
  /\ At(s, "saved") \/ At(s, "failed")
  /\ saver' = [saver EXCEPT ![s] = Idle]
  /\ UNCHANGED <<destination, temporary>>

SaveStep(s) ==
  \/ OpenTemporary(s)
  \/ OpenFails(s)
  \/ WriteTemporary(s)
  \/ WriteFails(s)
  \/ RenameTemporary(s)
  \/ RemoveDestination(s)
  \/ DiscardTemporary(s)

\* The process is killed: what was written stays, threads and streams do not.
KillSavers ==
  /\ saver' = [s \in Sessions |-> Idle]
  /\ UNCHANGED <<destination, temporary>>

StoreNext ==
  \/ \E s \in Sessions :
       \/ \E bytes \in Encodings : BeginSave(s, bytes)
       \/ SaveStep(s)
       \/ EndSave(s)
  \/ KillSavers

StoreSpec == StoreInit /\ [][StoreNext]_storeVars

-----------------------------------------------------------------------------
\* The store path names a complete encoding.
Readable == destination \notin {NoFile, Truncated, Mixed}

(***************************************************************************)
(* write_store_atomic: whatever the store path comes to name is a complete *)
(* encoding, and once it names one it never stops to.  A kill between any  *)
(* two steps therefore leaves the old store or the new one.                *)
(***************************************************************************)
StoreIsReplacedWhole == [][Readable']_destination

\* What the code needs and does not provide: one thread saves at a time.
OneSaverAtATime ==
  \A s, t \in Sessions : s # t => At(s, "idle") \/ At(t, "idle")
=============================================================================
