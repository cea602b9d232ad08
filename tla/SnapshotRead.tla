---------------------------- MODULE SnapshotRead ----------------------------
(***************************************************************************)
(* What one read of the ingest file promises to the validator, whatever    *)
(* the collector does to the file meanwhile: it names one physical file,   *)
(* the one the path pointed to when the read began, and if it succeeds its *)
(* result is the meaning of that file's complete lines at the instant the  *)
(* read finishes.  It never mixes two files and never shows half a line.   *)
(***************************************************************************)
EXTENDS Integers, Sequences

CONSTANT Meaning(_, _, _)  \* the fold's result for some points, a mode and a window

VARIABLES
  inodes,   \* the physical files made so far, oldest first: sequences of points
  cur,      \* the file the path names, 0 when there is none
  phase,    \* "idle", "scan", "done" or "failed"
  mode,     \* which fold was asked for
  since,    \* lower bound of the window, 0 for the whole file
  fd,       \* the file being read, 0 when none
  result    \* the fold's result once done

vars == <<inodes, cur, phase, mode, since, fd, result>>

Nothing == << >>

Init ==
  /\ inodes = << >>
  /\ cur = 0
  /\ phase = "idle"
  /\ mode = "latest"
  /\ since = 0
  /\ fd = 0
  /\ result = Nothing

\* Files only grow, at the end, and only the one the path names.
Grows(old, new) ==
  /\ Len(old) <= Len(new)
  /\ \A i \in DOMAIN old : new[i] = old[i]

FilesChange ==
  /\ \/ /\ Len(inodes') = Len(inodes) + 1
        /\ \A n \in DOMAIN inodes : inodes'[n] = inodes[n]
        /\ inodes'[Len(inodes')] = << >>
        /\ cur = 0
        /\ cur' = Len(inodes')
     \/ /\ Len(inodes') = Len(inodes)
        /\ \A n \in DOMAIN inodes :
             IF n = cur THEN Grows(inodes[n], inodes'[n])
                        ELSE inodes'[n] = inodes[n]
        /\ cur' \in {0, cur}
  /\ UNCHANGED <<phase, mode, since, fd, result>>

Begin ==
  /\ phase = "idle"
  /\ phase' = IF cur = 0 THEN "failed" ELSE "scan"
  /\ fd' = cur
  /\ mode' \in {"latest", "series"}
  /\ mode' = "latest" => since' = 0
  /\ UNCHANGED <<inodes, cur, result>>

Succeed ==
  /\ phase = "scan"
  /\ phase' = "done"
  /\ result' = Meaning(inodes[fd], mode, since)
  /\ UNCHANGED <<inodes, cur, mode, since, fd>>

Fail ==
  /\ phase = "scan"
  /\ phase' = "failed"
  /\ UNCHANGED <<inodes, cur, mode, since, fd, result>>

Return ==
  /\ phase \in {"done", "failed"}
  /\ phase' = "idle"
  /\ fd' = 0
  /\ result' = Nothing
  /\ UNCHANGED <<inodes, cur, mode, since>>

Next == FilesChange \/ Begin \/ Succeed \/ Fail \/ Return

Spec == Init /\ [][Next]_vars
=============================================================================
