-------------------------- MODULE IncrementalBuild --------------------------
(***************************************************************************)
(* MKN_TIMESTAMPS=1: what successive runs of `mkn build` (or `mkn clean    *)
(* build`) on one project keep on disk between them, and which sources a   *)
(* run decides not to compile (timestamps.cpp, source.cpp, and their       *)
(* callers in obj.cpp and process.cpp).                                    *)
(*                                                                         *)
(* A modification time stands for the content it belongs to: every edit    *)
(* gives a file a time of its own, later than all earlier ones.  The       *)
(* developer edits at any moment, and a run may be killed at any moment.   *)
(***************************************************************************)
EXTENDS Naturals

CONSTANTS Sources,   \* the files the project's src: may name; no main, no test
          Incs,      \* its include directories
          MaxEdits,  \* bound on the number of edits
          KillPoints \* the steps of a run at which it may be killed

ASSUME MaxEditsAssumption == MaxEdits \in Nat \ {0}
ASSUME KillPointsAssumption ==
         KillPoints \subseteq {"clean", "loaded", "compile", "stamp", "link"}

VARIABLES
  \* the developer's files
  src,       \* modification time of each source
  hdr,       \* of each include directory: the sum loadTimeStamps computes
  listed,    \* the sources sourceMap() finds
  clock,
  \* buildDir()
  obj,       \* per source: the times of what its object was compiled from
  srcStamp,  \* .mkn/src_stamp: a time per source, NoLine when it has no line
  incStamp,  \* .mkn/inc_stamp
  torn,      \* one of them ends in half a line
  bin,       \* the objects of the last library linked
  \* one run of mkn
  pc,
  stss,      \* src_stamp as loaded
  itss,      \* inc_stamp as loaded
  includeStamps,
  queue,     \* src_objs still to compile
  cacheFiles,
  \* history
  began,     \* src and hdr when the run started
  edited,    \* sources edited under a running build and not compiled since
  skipped,   \* sources stamped by a run that did not list them, ditto
  lost,      \* sources whose object a clean removed and whose stamp it left
  changed,   \* an edit, a failure or a kill since the run started
  again      \* the run follows a complete one, with no change in between

files   == <<src, hdr, listed, clock>>
disk    == <<obj, srcStamp, incStamp, torn, bin>>
run     == <<stss, itss, includeStamps, queue, cacheFiles>>
history == <<began, edited, skipped, lost, changed, again>>
vars    == <<files, disk, pc, run, history>>

Times  == 0..MaxEdits
NoLine == 0    \* the first content of every file has time 1
NoSrc  == [f \in Sources |-> NoLine]
NoInc  == [d \in Incs |-> NoLine]
None   == [src |-> NoLine, hdr |-> NoInc]   \* no object

\* What the compiler makes of f now.
Fresh(f) == [src |-> src[f], hdr |-> hdr]

NoRun == /\ stss' = NoSrc
         /\ itss' = NoInc
         /\ includeStamps' = NoInc
         /\ queue' = {}
         /\ cacheFiles' = {}

Init == /\ src = [f \in Sources |-> 1]
        /\ hdr = [d \in Incs |-> 1]
        /\ listed = Sources
        /\ clock = 1
        /\ obj = [f \in Sources |-> None]
        /\ srcStamp = NoSrc
        /\ incStamp = NoInc
        /\ torn = FALSE
        /\ bin = [f \in Sources |-> None]
        /\ pc = "idle"
        /\ stss = NoSrc /\ itss = NoInc /\ includeStamps = NoInc
        /\ queue = {} /\ cacheFiles = {}
        /\ began = [src |-> src, hdr |-> hdr]
        /\ edited = {} /\ skipped = {} /\ lost = {}
        /\ changed = TRUE
        /\ again = FALSE

-----------------------------------------------------------------------------
(* The developer.                                                          *)

EditSource(f) == /\ clock < MaxEdits
                 /\ clock' = clock + 1
                 /\ src' = [src EXCEPT ![f] = clock']
                 /\ edited' = IF pc \in {"loaded", "compile", "stamp"}
                              THEN edited \cup {f} ELSE edited
                 /\ changed' = TRUE
                 /\ UNCHANGED <<hdr, listed, disk, pc, run, began, skipped, lost, again>>

EditHeader(d) == /\ clock < MaxEdits
                 /\ clock' = clock + 1
                 /\ hdr' = [hdr EXCEPT ![d] = clock']
                 /\ changed' = TRUE
                 /\ UNCHANGED <<src, listed, disk, pc, run, began, edited, skipped,
                                 lost, again>>

\* The src: lines of mkn.yaml change, between two runs.
Relist == /\ pc = "idle"
          /\ \E L \in SUBSET Sources \ {listed} : listed' = L
          /\ changed' = TRUE
          /\ UNCHANGED <<src, hdr, clock, disk, pc, run, began, edited, skipped, lost,
                                 again>>

-----------------------------------------------------------------------------
(* A run.                                                                  *)

\* Where both stamp files are left, each line still vouches for its object.
LostBy(S) == IF incStamp' = NoInc /\ Incs # {} THEN {}
             ELSE {f \in lost \cup S : srcStamp'[f] # NoLine}

\* The clean command: rm() of buildDir() and of .mkn in it, one file after the
\* other.  What it has removed by then stays so when the run is killed, and
\* nobody looks whether it could remove everything.
Clean == /\ pc = "idle"
         /\ \E S \in SUBSET Sources :
              /\ obj' = [f \in Sources |-> IF f \in S THEN None ELSE obj[f]]
              /\ srcStamp' \in {srcStamp, NoSrc} /\ incStamp' \in {incStamp, NoInc}
              /\ lost' = LostBy(S)
         /\ bin' \in {bin, [f \in Sources |-> None]}
         /\ torn' \in {FALSE, torn /\ ~(srcStamp' = NoSrc /\ incStamp' = NoInc)}
         /\ pc' = "clean"
         /\ changed' = TRUE
         /\ UNCHANGED <<files, run, began, edited, skipped, again>>

\* loadTimeStamps(); half a line in a stamp file makes it exit.
Load == /\ pc \in {"idle", "clean"}
        /\ ~torn
        /\ pc' = "loaded"
        /\ stss' = srcStamp
        /\ itss' = incStamp
        /\ includeStamps' = hdr
        /\ began' = [src |-> src, hdr |-> hdr]
        /\ again' = ~changed
        /\ changed' = FALSE
        /\ UNCHANGED <<files, disk, queue, cacheFiles, edited, skipped, lost>>

LoadExits == /\ pc = "clean" /\ torn
             /\ pc' = "idle"
             /\ UNCHANGED <<files, disk, run, history>>

\* Fault: a changed include directory recompiles nothing.
incSrcOnly(f) == stss[f] # src[f]

\* Without a line, or with another time, in either stamp file: compile.
incSrc(f) == \/ stss[f] # src[f]
             \/ \E d \in Incs : itss[d] # includeStamps[d]

\* all_sources_from: which of the listed sources to compile.
Select == /\ pc = "loaded"
          /\ queue' = {f \in listed : incSrc(f)}
          /\ cacheFiles' = queue'
          /\ pc' = "compile"
          /\ UNCHANGED <<files, disk, stss, itss, includeStamps, history>>

\* The pool compiles a unit (CompilePool has the details).
Compile(f) == /\ pc = "compile"
              /\ f \in queue
              /\ obj' = [obj EXCEPT ![f] = Fresh(f)]
              /\ queue' = queue \ {f}
              /\ edited' = edited \ {f}
              /\ skipped' = skipped \ {f} /\ lost' = lost \ {f}
              /\ UNCHANGED <<files, srcStamp, incStamp, torn, bin, pc, stss, itss,
                             includeStamps, cacheFiles, began, changed, again>>

\* A unit does not compile: its object stays or is gone, and the exception
\* ends the run before any stamp is written.
CompileFails(f) == /\ pc = "compile"
                   /\ f \in queue
                   /\ obj' \in {obj, [obj EXCEPT ![f] = None]}
                   /\ pc' = "idle"
                   /\ NoRun
                   /\ changed' = TRUE
                   /\ UNCHANGED <<files, srcStamp, incStamp, torn, bin, began,
                                  edited, skipped, lost, again>>

\* writeTimeStamps opens, and so truncates, both files.
OpenStamps == /\ pc = "compile"
              /\ queue = {}
              /\ srcStamp' = NoSrc
              /\ incStamp' = NoInc
              /\ skipped' = skipped \cup {f \in Sources \ listed : stss[f] # NoLine}
              /\ pc' = "stamp"
              /\ UNCHANGED <<files, obj, torn, bin, run, began, edited, lost, changed, again>>

\* Fault: the stamps of files not compiled this time are not kept.
NewSrcStampCompiled == [f \in Sources |-> IF f \in cacheFiles THEN src[f] ELSE NoLine]

\* Fault: the time of the write instead of the file's.
NewSrcStampNow == [f \in Sources |->
                    IF f \in cacheFiles \/ stss[f] # NoLine THEN clock + 1 ELSE NoLine]

\* Each file compiled, and each file loaded with the stamps, is written with
\* the modification time it has now.
NewSrcStamp == [f \in Sources |->
                 IF f \in cacheFiles \/ stss[f] # NoLine THEN src[f] ELSE NoLine]

\* Fault: the include stamps of the moment of writing.
WriteStampsNow == /\ pc = "stamp"
                  /\ srcStamp' = NewSrcStamp
                  /\ incStamp' = hdr
                  /\ pc' = "link"
                  /\ UNCHANGED <<files, obj, torn, bin, run, history>>

WriteStamps == /\ pc = "stamp"
               /\ srcStamp' = NewSrcStamp
               /\ incStamp' = includeStamps
               /\ pc' = "link"
               /\ UNCHANGED <<files, obj, torn, bin, run, history>>

\* findObjects and link: every object under obj/ goes into the library.
Link == /\ pc = "link"
        /\ bin' = obj
        /\ pc' = "linked"
        /\ UNCHANGED <<files, obj, srcStamp, incStamp, torn, run, history>>

Exit == /\ pc = "linked"
        /\ pc' = "idle"
        /\ NoRun
        /\ UNCHANGED <<files, disk, history>>

\* The process is killed: a unit in the compiler may lose its object, and
\* stamps being written are on disk in part, perhaps up to half a line.
Killed == /\ pc \in KillPoints
          /\ pc' = "idle"
          /\ NoRun
          /\ changed' = TRUE
          /\ \/ /\ pc # "stamp"
                /\ \E S \in SUBSET queue :
                     obj' = [f \in Sources |-> IF f \in S THEN None ELSE obj[f]]
                /\ UNCHANGED <<srcStamp, incStamp, torn>>
             \/ /\ pc = "stamp"
                /\ \E S \in SUBSET Sources : srcStamp' =
                     [f \in Sources |-> IF f \in S THEN NewSrcStamp[f] ELSE NoLine]
                /\ \E D \in SUBSET Incs : incStamp' =
                     [d \in Incs |-> IF d \in D THEN includeStamps[d] ELSE NoLine]
                /\ torn' \in BOOLEAN
                /\ obj' = obj
          /\ UNCHANGED <<files, bin, began, edited, skipped, lost, again>>

-----------------------------------------------------------------------------
Developer == \/ \E f \in Sources : EditSource(f)
             \/ \E d \in Incs : EditHeader(d)
             \/ Relist

Run == \/ Clean \/ Load \/ LoadExits \/ Select \/ OpenStamps \/ WriteStamps \/ Link \/ Exit
       \/ \E f \in Sources : Compile(f) \/ CompileFails(f)

Next == Developer \/ Run \/ Killed

Spec == Init /\ [][Next]_vars

-----------------------------------------------------------------------------
(* Properties.                                                             *)

Object == [src : Times, hdr : [Incs -> Times]]

TypeOK ==
  /\ src \in [Sources -> Times] /\ hdr \in [Incs -> Times]
  /\ listed \subseteq Sources
  /\ clock \in Times
  /\ obj \in [Sources -> Object] /\ bin \in [Sources -> Object]
  /\ srcStamp \in [Sources -> Times] /\ incStamp \in [Incs -> Times]
  /\ torn \in BOOLEAN
  /\ pc \in {"idle", "clean", "loaded", "compile", "stamp", "link", "linked"}
  /\ stss \in [Sources -> Times] /\ itss \in [Incs -> Times]
  /\ includeStamps \in [Incs -> Times]
  /\ queue \subseteq Sources /\ cacheFiles \subseteq Sources
  /\ began \in [src : [Sources -> Times], hdr : [Incs -> Times]]
  /\ edited \cup skipped \cup lost \subseteq Sources
  /\ changed \in BOOLEAN /\ again \in BOOLEAN

\* o was compiled from f, and from every include directory, as they were when
\* the run started or later.
UpToDate(o, f) == /\ o.src >= began.src[f]
                  /\ \A d \in Incs : o.hdr[d] >= began.hdr[d]

FreshBut(S) == pc = "linked" => \A f \in listed \ S : UpToDate(bin[f], f)

\* A run that links has compiled, or rightly not compiled again, every source
\* it lists, whatever was edited, killed or failed before or during it, and
\* headers may change under a running build; the only exceptions are sources
\* edited under a running build, stamped by a run that does not list them, or
\* whose object went with a clean that did not come to the stamps.
LinksFresh == FreshBut(edited \cup skipped \cup lost)

\* "... source file modification timestamps are recorded ..., which are checked
\* on the next build to see if recompilation is required" (behaviour.md): an
\* edit made while a build runs is compiled by the next one.
EditsUnderBuildAreSeen == FreshBut(skipped \cup lost)

\* A run right after a complete one, with nothing changed in between, compiles
\* nothing: the stamps written are those the next run looks for.
NothingTwice ==
  pc = "compile" /\ again /\ ~changed => queue = {}

\* A kill or a failure at any step never makes a later run trust a stamp it
\* should not, but for the same exceptions: a source whose stamps all match the
\* files has an object made from those files.
StampSound ==
  pc = "idle" =>
    \A f \in Sources \ (edited \cup skipped \cup lost) :
      srcStamp[f] = src[f] /\ incStamp = hdr => obj[f] = Fresh(f)
=============================================================================
