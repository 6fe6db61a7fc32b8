------------------------------- MODULE Fetch -------------------------------
(***************************************************************************)
(* Model files (slimserve/fetch.py): resumable downloads into a .part file *)
(* that is validated and renamed, and the assembly of a model from its     *)
(* downloaded parts, by processes that may be killed at any point and run  *)
(* again, against a server that may cut a transfer short, ignore a Range   *)
(* header, refuse, or have changed the file since.                         *)
(*                                                                         *)
(* A file is a sequence of chunks. What is on disk is a set of inodes, as  *)
(* a process goes on writing to the file it opened after somebody else     *)
(* renamed it. The Hub client (hf_repo entries) is not modelled.           *)
(***************************************************************************)
EXTENDS Integers, Sequences, SequencesExt, FiniteSets, FiniteSetsExt, Functions

CONSTANTS Processes,     \* concurrent runs of ensure() over one cache
          NumFiles,      \* files of the plan, in the order of the manifest
          NumChunks,     \* of a file: entry["bytes"]
          Plans,         \* the plans to check: records of the fields below
          MaxFaults      \* bound on kills, refusals and short transfers

ASSUME FetchAssumption ==
    /\ NumFiles \in Nat \ {0} /\ NumChunks \in Nat \ {0} /\ MaxFaults \in Nat
    /\ \A p \in Plans : p.maxVersions \in Nat \ {0}

Files == 1..NumFiles
Inodes == 1..(2 * NumFiles * Cardinality(Processes) + 2)
None == 0

VARIABLES plan,          \* what is to be fetched; never changes
          data,          \* contents of the inodes
          dest, part,    \* the inodes of the files and of their .part files
          out, building, \* of the assembled file and of its staging file
          version,       \* what the server has now
          pc, todo,      \* of a process: its next step, the files it has left
          fd, at,        \* its open file, and where it writes (-1: at the end)
          done,          \* what it believes to have written
          stream,        \* the response it reads: next chunk, last, version
          faults

disk == <<data, dest, part, out, building>>
local == <<pc, todo, fd, at, done, stream>>
vars == <<plan, disk, version, local, faults>>

HasHash == plan.hasHash          \* the registry has the files' sha256
Assembly == plan.assembly        \* plan.quant.assembly
KeepParts == plan.keepParts      \* spec["keep_parts"]
MaxVersions == plan.maxVersions  \* of the served files; the registry has the first

Versions == 1..MaxVersions
Whole(f, v) == [i \in 1..NumChunks |-> <<f, v, i>>]
\* The byte to be corrected is in the first chunk of the first file, in every version.
Header(first) == {<<first, v, 1>> : v \in Versions}
Patch(s) == [s EXCEPT ![1][1] = 0]
Concatenated == FlattenSeq([f \in Files |-> Whole(f, 1)])
NoStream == [next |-> 1, last |-> 0, version |-> 1]

Init ==
    /\ plan \in Plans
    /\ data = [n \in Inodes |-> <<>>]
    /\ dest = [f \in Files |-> None] /\ part = [f \in Files |-> None]
    /\ out = None /\ building = None /\ version = MaxVersions
    /\ pc = [p \in Processes |-> "off"] /\ todo = [p \in Processes |-> <<>>]
    /\ fd = [p \in Processes |-> None] /\ at = [p \in Processes |-> 0]
    /\ done = [p \in Processes |-> 0] /\ stream = [p \in Processes |-> NoStream]
    /\ faults = 0

-----------------------------------------------------------------------------
(* Files.                                                                  *)

Linked == Range(dest) \cup Range(part) \cup Range(fd) \cup {out, building}
Fresh == Min(Inodes \ Linked)
Length(n) == IF n = None THEN 0 ELSE Len(data[n])
Complete(n, size) == n # None /\ Length(n) = size
Valid(f) == Complete(dest[f], NumChunks) /\ (HasHash => data[dest[f]] = Whole(f, 1))

\* Where open(path, mode) leads: to the file of that name, or to a new one.
Opened(n) == IF n = None THEN Fresh ELSE n
\* Writing cs at an offset, past whatever another process left there.
WriteAt(s, pos, cs) ==
    LET old(i) == IF i \in DOMAIN s THEN s[i] ELSE <<0, 0, 0>>
    IN  [i \in 1..Max({Len(s), pos + Len(cs)}) |->
            IF i \in (pos + 1)..(pos + Len(cs)) THEN cs[i - pos] ELSE old(i)]
Write(p, cs) ==
    LET s == data[fd[p]]
    IN  data' = [data EXCEPT ![fd[p]] = WriteAt(s, IF at[p] = -1 THEN Len(s) ELSE at[p], cs)]

-----------------------------------------------------------------------------
(* ensure(): what is missing is downloaded, then the model is assembled.   *)

Total == NumFiles * NumChunks
\* _pending; with the assembled file there, its parts are not missed.
Pending ==
    IF Assembly /\ Complete(out, Total) THEN <<>>
    ELSE SelectSeq([f \in Files |-> f], LAMBDA f : ~Valid(f))

Goto(p, step) == pc' = [pc EXCEPT ![p] = step]
\* An exception, or the end of the process.
Exit(p) == /\ Goto(p, "off") /\ fd' = [fd EXCEPT ![p] = None]
           /\ UNCHANGED <<todo, at, done, stream>>

Ensure(p) ==
    /\ pc[p] = "off"
    /\ todo' = [todo EXCEPT ![p] = Pending]
    /\ Goto(p, "open")
    /\ UNCHANGED <<plan, disk, version, fd, at, done, stream, faults>>

\* _download: a .part that is too long is thrown away, one that is complete
\* needs no request.
OpenPart(p) ==
    /\ pc[p] = "open" /\ todo[p] # <<>>
    /\ LET f == Head(todo[p])
           have == Length(part[f])
       IN  /\ part' = IF have > NumChunks THEN [part EXCEPT ![f] = None] ELSE part
           /\ done' = [done EXCEPT ![p] = IF have > NumChunks THEN 0 ELSE have]
           /\ Goto(p, IF have = NumChunks THEN "finalize" ELSE "request")
    /\ UNCHANGED <<plan, data, dest, out, building, version, todo, fd, at, stream, faults>>

\* The response may start where the .part ends or, the range ignored, at the
\* beginning; it may end early.
\* mutant: what a full response brings is appended
StartedOverNever(have, ranged) == have
StartedOver(have, ranged) == IF ranged THEN have ELSE 0

Respond(p) ==
    /\ pc[p] = "request"
    /\ \E ranged \in BOOLEAN, last \in 0..NumChunks :
         LET f == Head(todo[p])
             have == StartedOver(done[p], ranged)
             n == Opened(part[f])
             first == IF ranged THEN done[p] ELSE 0
         IN  /\ last >= first /\ (last < NumChunks => faults < MaxFaults)
             /\ faults' = IF last < NumChunks THEN faults + 1 ELSE faults
             /\ part' = [part EXCEPT ![f] = n]
             /\ data' = IF have > 0 /\ part[f] # None THEN data ELSE [data EXCEPT ![n] = <<>>]
             /\ fd' = [fd EXCEPT ![p] = n]
             /\ at' = [at EXCEPT ![p] = IF have > 0 THEN -1 ELSE 0]
             /\ done' = [done EXCEPT ![p] = have]
             /\ stream' = [stream EXCEPT ![p] = [next |-> first + 1, last |-> last,
                                                 version |-> version]]
    /\ Goto(p, "receive")
    /\ UNCHANGED <<plan, dest, out, building, version, todo>>

Refuse(p) ==
    /\ pc[p] = "request" /\ faults < MaxFaults
    /\ faults' = faults + 1
    /\ Exit(p)
    /\ UNCHANGED <<plan, disk, version>>

Receive(p) ==
    /\ pc[p] = "receive"
    /\ LET s == stream[p]
       IN  IF s.next > s.last
           THEN /\ Goto(p, "finalize") /\ fd' = [fd EXCEPT ![p] = None]
                /\ UNCHANGED <<data, at, done, stream>>
           ELSE /\ Write(p, <<<<Head(todo[p]), s.version, s.next>>>>)
                /\ at' = [at EXCEPT ![p] = IF @ = -1 THEN -1 ELSE @ + 1]
                /\ done' = [done EXCEPT ![p] = @ + 1]
                /\ stream' = [stream EXCEPT ![p].next = @ + 1]
                /\ UNCHANGED <<pc, fd>>
    /\ UNCHANGED <<plan, dest, part, out, building, version, todo, faults>>

\* _finalize: the count, then the hash, then the rename. A short .part is kept.
Enough(n) == n = NumChunks
\* mutant: the hash is not checked
CorruptNever(f) == FALSE
Corrupt(f) == HasHash /\ part[f] # None /\ data[part[f]] # Whole(f, 1)
\* mutant: a corrupt .part is kept
DiscardedNever(f) == FALSE
Discarded(f) == Corrupt(f)

Finalize(p) ==
    /\ pc[p] = "finalize"
    /\ LET f == Head(todo[p])
       IN  /\ part' = IF Enough(done[p]) /\ Discarded(f) THEN [part EXCEPT ![f] = None] ELSE part
           /\ IF ~Enough(done[p]) \/ Corrupt(f) \/ part[f] = None
              THEN Exit(p)
              ELSE Goto(p, "install") /\ UNCHANGED <<todo, fd, at, done, stream>>
    /\ UNCHANGED <<plan, data, dest, out, building, version, faults>>

Install(p) ==
    /\ pc[p] = "install"
    /\ LET f == Head(todo[p])
       IN  IF part[f] = None THEN Exit(p) /\ UNCHANGED <<dest, part>>
           ELSE /\ dest' = [dest EXCEPT ![f] = part[f]]
                /\ part' = [part EXCEPT ![f] = None]
                /\ todo' = [todo EXCEPT ![p] = Tail(@)]
                /\ Goto(p, "open")
                /\ UNCHANGED <<fd, at, done, stream>>
    /\ UNCHANGED <<plan, data, out, building, version, faults>>

-----------------------------------------------------------------------------
(* _assemble().                                                            *)

Assemble(p) ==
    /\ pc[p] = "open" /\ todo[p] = <<>>
    /\ IF ~Assembly \/ Complete(out, Total)
       THEN Goto(p, "ready") /\ UNCHANGED <<data, building, todo, fd, at, done>>
       ELSE /\ building' = Opened(building)
            /\ data' = [data EXCEPT ![Opened(building)] = <<>>]
            /\ fd' = [fd EXCEPT ![p] = Opened(building)]
            /\ at' = [at EXCEPT ![p] = 0] /\ done' = [done EXCEPT ![p] = 0]
            /\ todo' = [todo EXCEPT ![p] = [f \in Files |-> f]]
            /\ Goto(p, "build")
    /\ UNCHANGED <<plan, dest, part, out, version, stream, faults>>

Build(p) ==
    /\ pc[p] = "build" /\ todo[p] # <<>>
    /\ LET f == Head(todo[p])
           n == Length(dest[f])
       IN  IF dest[f] = None THEN Exit(p) /\ UNCHANGED data
           ELSE /\ Write(p, data[dest[f]])
                /\ at' = [at EXCEPT ![p] = @ + n] /\ done' = [done EXCEPT ![p] = @ + n]
                /\ todo' = [todo EXCEPT ![p] = Tail(@)]
                /\ UNCHANGED <<pc, fd, stream>>
    /\ UNCHANGED <<plan, dest, part, out, building, version, faults>>

\* The header byte; anything but the byte it replaces is refused.
PatchHeader(p) ==
    /\ pc[p] = "build" /\ todo[p] = <<>>
    /\ LET wrong == \/ done[p] # Total
                    \/ Length(building) = 0
                    \/ data[building][1] \notin Header(1) \cup Header(0)
       IN  IF wrong THEN Exit(p) /\ building' = None /\ UNCHANGED data
           ELSE /\ data' = [data EXCEPT ![building] = Patch(@)]
                /\ fd' = [fd EXCEPT ![p] = None]
                /\ Goto(p, "rename")
                /\ UNCHANGED <<building, todo, at, done, stream>>
    /\ UNCHANGED <<plan, dest, part, out, version, faults>>

Rename(p) ==
    /\ pc[p] = "rename"
    /\ IF building = None THEN Exit(p) /\ UNCHANGED <<out, building>>
       ELSE /\ out' = building /\ building' = None
            /\ todo' = [todo EXCEPT ![p] = IF KeepParts THEN <<>> ELSE [f \in Files |-> f]]
            /\ Goto(p, "clean")
            /\ UNCHANGED <<fd, at, done, stream>>
    /\ UNCHANGED <<plan, data, dest, part, version, faults>>

Clean(p) ==
    /\ pc[p] = "clean"
    /\ IF todo[p] = <<>> THEN Goto(p, "ready") /\ UNCHANGED <<dest, todo>>
       ELSE /\ dest' = [dest EXCEPT ![Head(todo[p])] = None]
            /\ todo' = [todo EXCEPT ![p] = Tail(@)]
            /\ UNCHANGED pc
    /\ UNCHANGED <<plan, data, part, out, building, version, fd, at, done, stream, faults>>

-----------------------------------------------------------------------------
(* The world.                                                              *)

Kill(p) ==
    /\ pc[p] \notin {"off", "ready"} /\ faults < MaxFaults
    /\ faults' = faults + 1
    /\ Exit(p)
    /\ UNCHANGED <<plan, disk, version>>

\* The server comes round to the version the registry describes.
ServerChanges ==
    /\ version > 1
    /\ version' = version - 1
    /\ UNCHANGED <<plan, disk, local, faults>>

Step(p) == \/ Ensure(p) \/ OpenPart(p) \/ Respond(p) \/ Receive(p) \/ Finalize(p) \/ Install(p)
           \/ Assemble(p) \/ Build(p) \/ PatchHeader(p) \/ Rename(p) \/ Clean(p)
Next == \/ \E p \in Processes : Step(p) \/ Refuse(p) \/ Kill(p)
        \/ ServerChanges
Spec == Init /\ [][Next]_vars

\* A process that was killed or failed is run again, and runs on; the server
\* has the right file in the end.
FairSpec == Spec /\ WF_vars(ServerChanges) /\ \A p \in Processes : WF_vars(Step(p))

-----------------------------------------------------------------------------
(* Properties.                                                             *)

\* A file as the server has it, though perhaps not all of one version.
Served(f, s) ==
    /\ Len(s) = NumChunks
    /\ \A i \in 1..NumChunks : \E v \in Versions : s[i] = <<f, v, i>>

\* Nothing partial, doubled or out of place is ever under a name the server
\* loads: a file is every chunk of it once and in order, whatever attempts they
\* came from, and all of the registry's version if there is a hash; the
\* assembled model is such files in the plan's order, patched.
InstalledRight ==
    /\ \A f \in Files : dest[f] # None =>
          Served(f, data[dest[f]]) /\ (HasHash => data[dest[f]] = Whole(f, 1))
    /\ out # None =>
          /\ data[out][1] \in Header(0) /\ Len(data[out]) = Total
          /\ \A f \in Files :
                Served(f, SubSeq([data[out] EXCEPT ![1][1] = 1],
                                 (f - 1) * NumChunks + 1, f * NumChunks))
          /\ HasHash => data[out] = Patch(Concatenated)

\* "Every download is resumable": what a resumed download installs is one whole
\* version of the file, though the server has changed it since ("start over
\* rather than corrupt the file").
OneVersion ==
    \A f \in Files : dest[f] # None => \E v \in Versions : data[dest[f]] = Whole(f, v)

\* When ensure() returns, every file of the plan is there and valid.
ReadyMeansPresent ==
    \A p \in Processes : pc[p] = "ready" =>
        IF Assembly THEN Complete(out, Total) ELSE \A f \in Files : Valid(f)

\* When ensure() returns, an assembled model's parts are gone unless they are
\* to be kept.
PartsRemoved ==
    Assembly /\ ~KeepParts =>
        \A p \in Processes : pc[p] = "ready" => \A f \in Files : dest[f] = None

\* Retries get there: ensure() returns in the end, however the attempts before
\* were interrupted.
Fetched == \A p \in Processes : <>(pc[p] = "ready")
=============================================================================
