----------------------- MODULE IncrementalBuild_proofs -----------------------
(***************************************************************************)
(* Why MKN_TIMESTAMPS builds link up-to-date objects, compile nothing      *)
(* twice, and survive edits, failures and kills, for every number of       *)
(* sources, include directories and edits.                                 *)
(*                                                                         *)
(* The argument: a stamp on disk is never later than the file it is for,   *)
(* and outside the sources at risk (edited, skipped, lost) a matching stamp is   *)
(* only ever written for an object made from the content it vouches for.   *)
(* "Matching" is judged against the include stamps the run took when it    *)
(* started, and against the files themselves between two runs: Ref.        *)
(***************************************************************************)
EXTENDS IncrementalBuild, TLAPS

Ref    == IF pc \in {"idle", "clean"} THEN hdr ELSE includeStamps
AtRisk == edited \cup skipped \cup lost

AtLeast(g, h) == \A d \in Incs : g[d] >= h[d]

\* Made from f as it is, and from headers no older than the reference.
Good(f) == obj[f].src = src[f] /\ AtLeast(obj[f].hdr, Ref)

Matches(f) == srcStamp[f] = src[f] /\ incStamp = Ref

\* No stamp and no object is later than the file it is for.
Bounds ==
  /\ clock \in 1..MaxEdits
  /\ \A f \in Sources : /\ src[f] \in 1..clock
                        /\ srcStamp[f] <= src[f]
                        /\ stss[f] <= src[f]
  /\ \A d \in Incs : hdr[d] \in 1..clock /\ incStamp[d] <= Ref[d] /\ Ref[d] <= hdr[d]
  /\ \A f \in Sources : AtLeast(hdr, obj[f].hdr)

\* What a run knows of the disk and of the moment it started.
InRun ==
  /\ pc \notin {"idle", "clean"} =>
       /\ includeStamps = began.hdr
       /\ \A f \in Sources : began.src[f] <= src[f]
  /\ pc \in {"loaded", "compile"} => stss = srcStamp /\ itss = incStamp
  /\ pc # "compile" => queue = {}
  /\ pc \in {"compile", "stamp"} => queue \subseteq listed /\ cacheFiles \subseteq listed

\* A matching stamp vouches for its object; a unit still to compile has none.
SoundDisk ==
  /\ \A f \in Sources \ AtRisk : Matches(f) => Good(f)
  /\ \A f \in queue : ~Matches(f)

\* What the run has compiled, or found compiled, so far.
Done ==
  /\ pc = "compile" => \A f \in listed \ (queue \cup AtRisk) : Good(f)
  /\ pc = "stamp" => \A f \in Sources \ AtRisk :
                       f \in cacheFiles \/ stss[f] # NoLine => Good(f)
  /\ pc \in {"compile", "stamp", "link"} =>
       \A f \in listed \ (queue \cup AtRisk) : UpToDate(obj[f], f)
  /\ pc = "linked" => \A f \in listed \ AtRisk : UpToDate(bin[f], f)

\* With no change since the run started, or since the last one ended, the
\* stamps on disk, or those to be written, are those of the files.
Settled ==
  ~changed =>
    /\ pc # "clean"
    /\ pc # "idle" => includeStamps = hdr
    /\ pc \in {"idle", "link", "linked"} => \A f \in listed : Matches(f)
    /\ pc = "loaded" /\ again => \A f \in listed : stss[f] = src[f] /\ itss = hdr
    /\ pc = "compile" /\ again => queue = {}
    /\ pc \in {"compile", "stamp"} =>
         \A f \in listed : f \in cacheFiles \/ stss[f] = src[f]

IInv == TypeOK /\ Bounds /\ InRun /\ SoundDisk /\ Done /\ Settled

-----------------------------------------------------------------------------
(* Type correctness.                                                       *)

USE MaxEditsAssumption, KillPointsAssumption DEF MaxEditsAssumption, KillPointsAssumption

\* An empty stamp file and a missing object.
LEMMA Empty == /\ NoSrc \in [Sources -> Times]
               /\ NoInc \in [Incs -> Times]
               /\ None \in Object
               /\ 1 \in Times
<1>1. NoLine \in Times /\ 1 \in Times
  BY DEF NoLine, Times
<1>2. NoInc \in [Incs -> Times]
  BY <1>1 DEF NoInc
<1>3. QED
  BY <1>1, <1>2 DEF NoSrc, None, Object

\* The initial state is well typed.
LEMMA TypeInit == Init => TypeOK
<1> SUFFICES ASSUME Init PROVE TypeOK
  OBVIOUS
<1>1. src \in [Sources -> Times] /\ hdr \in [Incs -> Times]
  BY Empty DEF Init
<1>2. obj \in [Sources -> Object] /\ bin \in [Sources -> Object]
  BY Empty DEF Init
<1>3. began \in [src : [Sources -> Times], hdr : [Incs -> Times]]
  BY <1>1 DEF Init
<1>4. QED
  BY <1>1, <1>2, <1>3, Empty DEF Init, TypeOK

\* Every edit and every step of a run keeps the types.
LEMMA TypeStep == TypeOK /\ [Next]_vars => TypeOK'
<1> SUFFICES ASSUME TypeOK, [Next]_vars PROVE TypeOK'
  OBVIOUS
<1> USE Empty DEF TypeOK, files, disk, run, history
<1>0. NewSrcStamp \in [Sources -> Times]
  BY DEF NewSrcStamp, NoLine
<1>a. \A f \in Sources : Fresh(f) \in Object
  BY DEF Fresh, Object
<1>b. \A t \in Times : t < MaxEdits => t + 1 \in Times
  BY DEF Times
<1>1. ASSUME NEW f \in Sources, EditSource(f) PROVE TypeOK'
  BY <1>1, <1>b DEF EditSource
<1>2. ASSUME NEW d \in Incs, EditHeader(d) PROVE TypeOK'
  BY <1>2, <1>b DEF EditHeader
<1>3. CASE Relist
  BY <1>3 DEF Relist
<1>4. CASE Load
  BY <1>4 DEF Load
<1>5. CASE Clean
  <2> USE <1>5 DEF Clean
  <2>1. PICK S \in SUBSET Sources : /\ obj' = [f \in Sources |-> IF f \in S THEN None ELSE obj[f]]
                                     /\ lost' = LostBy(S)
    OBVIOUS
  <2>2. obj' \in [Sources -> Object]
    BY <2>1
  <2>3. lost' \subseteq Sources
    BY <2>1 DEF LostBy
  <2>4. srcStamp' \in [Sources -> Times] /\ incStamp' \in [Incs -> Times] /\ torn' \in BOOLEAN
    OBVIOUS
  <2>5. bin' \in [Sources -> Object]
    OBVIOUS
  <2> QED
    BY <2>2, <2>3, <2>4, <2>5
<1>16. CASE LoadExits
  BY <1>16 DEF LoadExits
<1>6. CASE Select
  BY <1>6 DEF Select
<1>7. ASSUME NEW f \in Sources, Compile(f) PROVE TypeOK'
  BY <1>7, <1>a DEF Compile
<1>8. ASSUME NEW f \in Sources, CompileFails(f) PROVE TypeOK'
  BY <1>8 DEF CompileFails, NoRun
<1>9. CASE OpenStamps
  BY <1>9 DEF OpenStamps
<1>10. CASE WriteStamps
  BY <1>0, <1>10 DEF WriteStamps
<1>11. CASE Link
  BY <1>11 DEF Link
<1>12. CASE Exit
  BY <1>12 DEF Exit, NoRun
<1>13. CASE Killed
  <2>1. obj' \in [Sources -> Object]
    BY <1>13 DEF Killed
  <2>2. srcStamp' \in [Sources -> Times]
    BY <1>13, <1>0 DEF Killed, NoLine, Times
  <2>3. incStamp' \in [Incs -> Times]
    BY <1>13 DEF Killed, NoLine, Times
  <2>4. QED
    BY <1>13, <2>1, <2>2, <2>3 DEF Killed, NoRun
<1>14. CASE UNCHANGED vars
  BY <1>14 DEF vars
<1>15. QED
  BY <1>1, <1>2, <1>3, <1>4, <1>5, <1>6, <1>7, <1>8, <1>9, <1>10, <1>11, <1>12,
     <1>13, <1>14, <1>16 DEF Next, Developer, Run

\* Every variable of the project, of the disk and of a run keeps its type.
THEOREM TypeCorrect == Spec => []TypeOK
  BY TypeInit, TypeStep, PTL DEF Spec

-----------------------------------------------------------------------------
(* The invariant.                                                          *)

\* A project never built before.
LEMMA InvInit == Init => IInv
  BY TypeInit DEF Init, IInv, Bounds, InRun, SoundDisk, Done, Settled, Ref,
     AtRisk, AtLeast, Matches, Good, None, NoSrc, NoInc, NoLine

\* A run that ends leaves include stamps that match the headers only if it
\* took them from these very headers.
LEMMA EndRef == ASSUME TypeOK, Bounds, incStamp = hdr, pc \notin {"idle", "clean"}
                PROVE  includeStamps = hdr
<1>1. Ref = includeStamps
  BY DEF Ref
<1>2. \A d \in Incs : incStamp[d] <= includeStamps[d] /\ includeStamps[d] <= hdr[d]
  BY <1>1 DEF Bounds
<1>3. \A d \in Incs : includeStamps[d] \in Nat /\ hdr[d] \in Nat
  BY DEF TypeOK, Times
<1>4. \A d \in Incs : includeStamps[d] = hdr[d]
  BY <1>2, <1>3
<1>5. QED
  BY <1>4 DEF TypeOK

\* The time of an edit is later than every stamp, so no stamp matches the file.
LEMMA EditSourceStep == ASSUME IInv, TypeOK', NEW f \in Sources, EditSource(f) PROVE IInv'
<1> USE DEF EditSource, IInv, files, disk, run, history, Ref, AtRisk, AtLeast,
            NoLine, NoSrc, NoInc, None
<1>1. Bounds'
  BY DEF TypeOK, Bounds, Times
<1>2. InRun'
  BY DEF TypeOK, Bounds, InRun, Times
<1>3. SoundDisk'
  BY DEF Bounds, SoundDisk, Matches, Good
<1>4. Done'
  BY DEF Done, Good, UpToDate
<1>5. Settled'
  BY DEF Settled
<1>6. QED
  BY <1>1, <1>2, <1>3, <1>4, <1>5

\* Between two runs the edit outdates every stamp; in a run the reference stays.
LEMMA EditHeaderStep == ASSUME IInv, TypeOK', NEW d \in Incs, EditHeader(d) PROVE IInv'
<1> USE DEF EditHeader, IInv, files, disk, run, history, Ref, AtRisk, AtLeast,
            NoLine, NoSrc, NoInc, None
<1>1. Bounds'
  BY DEF TypeOK, Bounds, Times, Object
<1>2. InRun'
  BY DEF InRun
<1>3. SoundDisk'
  BY DEF TypeOK, Bounds, SoundDisk, Matches, Good
<1>4. Done'
  BY DEF Done, Good, UpToDate
<1>5. Settled'
  BY DEF Settled
<1>6. QED
  BY <1>1, <1>2, <1>3, <1>4, <1>5

\* The list changes between two runs only.
LEMMA RelistStep == ASSUME IInv, TypeOK', Relist PROVE IInv'
<1> USE DEF Relist, IInv, files, disk, run, history, Ref, AtRisk, AtLeast,
            NoLine, NoSrc, NoInc, None
<1>1. Bounds'
  BY DEF Bounds
<1>2. InRun'
  BY DEF InRun
<1>3. SoundDisk'
  BY DEF SoundDisk, Matches, Good
<1>4. Done'
  BY DEF Done
<1>5. Settled'
  BY DEF Settled
<1>6. QED
  BY <1>1, <1>2, <1>3, <1>4, <1>5

\* The run takes its reference from the headers as they are.
LEMMA LoadStep == ASSUME IInv, TypeOK', Load PROVE IInv'
<1> USE DEF Load, IInv, files, disk, run, history, Ref, AtRisk, AtLeast, NoLine,
            NoSrc, NoInc, None
<1>1. Bounds'
  BY DEF Bounds
<1>2. InRun'
  BY DEF Bounds, InRun
<1>3. SoundDisk'
  BY DEF SoundDisk, Matches, Good
<1>4. Done'
  BY DEF Done
<1>5. Settled'
  BY DEF Settled, Matches
<1>6. QED
  BY <1>1, <1>2, <1>3, <1>4, <1>5

\* A stamp that a clean has left still vouches for its object, but for those lost.
LEMMA CleanStep == ASSUME IInv, TypeOK', Clean PROVE IInv'
<1> USE DEF Clean, IInv, files, disk, run, history, Ref, AtLeast, NoLine, NoSrc, NoInc, None
<1>1. Bounds'
  <2>1. \A f \in Sources : srcStamp'[f] <= src[f] /\ AtLeast(hdr, obj'[f].hdr)
    BY DEF TypeOK, Bounds, Times
  <2>2. \A d \in Incs : incStamp'[d] <= hdr[d]
    BY DEF TypeOK, Bounds, Times
  <2> QED
    BY <2>1, <2>2 DEF Bounds
<1>2. InRun'
  BY DEF InRun
<1>3. SoundDisk'
  <2>1. ASSUME NEW f \in Sources \ AtRisk', srcStamp'[f] = src[f], incStamp' = hdr
        PROVE  f \notin AtRisk /\ srcStamp[f] = src[f] /\ incStamp = hdr /\ obj'[f] = obj[f]
    <3>1. src[f] # 0 /\ \A d \in Incs : hdr[d] # 0
      BY DEF Bounds
    <3>2. srcStamp' = srcStamp
      BY <2>1, <3>1
    <3>3. Incs # {} => incStamp' = incStamp /\ incStamp' # NoInc
      BY <2>1, <3>1
    <3>4. incStamp = hdr
      <4>1. CASE Incs = {}
        BY <4>1 DEF TypeOK
      <4> QED
        BY <2>1, <3>3, <4>1
    <3>5. PICK S \in SUBSET Sources : lost' = LostBy(S) /\ obj' = [g \in Sources |-> IF g \in S THEN None ELSE obj[g]]
      OBVIOUS
    <3>6. f \notin lost \cup S
      BY <2>1, <3>1, <3>2, <3>3, <3>5 DEF LostBy, AtRisk
    <3> QED
      BY <2>1, <3>2, <3>4, <3>5, <3>6 DEF AtRisk
  <2> QED
    BY <2>1 DEF SoundDisk, Matches, Good, InRun
<1>4. Done'
  BY DEF Done
<1>5. Settled'
  BY DEF Settled
<1>6. QED
  BY <1>1, <1>2, <1>3, <1>4, <1>5

\* A run that stops at half a line has changed nothing.
LEMMA LoadExitsStep == ASSUME IInv, TypeOK', LoadExits PROVE IInv'
<1> USE DEF LoadExits, IInv, files, disk, run, history, Ref, AtRisk, AtLeast, NoLine,
            NoSrc, NoInc, None
<1>1. Bounds'
  BY DEF Bounds
<1>2. InRun'
  BY DEF InRun
<1>3. SoundDisk'
  BY DEF SoundDisk, Matches, Good
<1>4. Done'
  BY DEF Done
<1>5. Settled'
  BY DEF Settled
<1>6. QED
  BY <1>1, <1>2, <1>3, <1>4, <1>5

\* A listed source left out of the queue has matching stamps, so a good object.
LEMMA SelectStep == ASSUME IInv, TypeOK', Select PROVE IInv'
<1> USE DEF Select, incSrc, IInv, files, disk, run, history, Ref, AtRisk,
            AtLeast, NoLine, NoSrc, NoInc, None
<1>1. Bounds'
  BY DEF Bounds
<1>2. InRun'
  BY DEF InRun
<1>3. SoundDisk'
  BY DEF InRun, SoundDisk, Matches, Good
<1>4. Done'
  BY DEF TypeOK, InRun, SoundDisk, Done, Matches, Good, UpToDate
<1>5. Settled'
  BY DEF Settled
<1>6. QED
  BY <1>1, <1>2, <1>3, <1>4, <1>5

\* A source compiled under the run has a good object, and is no longer at risk.
LEMMA CompileStep == ASSUME IInv, TypeOK', NEW f \in Sources, Compile(f) PROVE IInv'
<1> USE DEF Compile, Fresh, IInv, files, disk, run, history, Ref, AtRisk,
            AtLeast, NoLine, NoSrc, NoInc, None
<1>1. Bounds'
  BY DEF Bounds
<1>2. InRun'
  BY DEF InRun
<1>3. SoundDisk'
  BY DEF SoundDisk, Matches, Good
<1>4. Done'
  BY DEF TypeOK, Bounds, InRun, Done, Good, UpToDate
<1>5. Settled'
  BY DEF Settled
<1>6. QED
  BY <1>1, <1>2, <1>3, <1>4, <1>5

\* The unit that lost its object had no matching stamp, and gets none.
LEMMA CompileFailsStep == ASSUME IInv, TypeOK', NEW f \in Sources, CompileFails(f) PROVE IInv'
<1> USE DEF CompileFails, NoRun, IInv, files, disk, run, history, Ref, AtRisk,
            AtLeast, NoLine, NoSrc, NoInc, None
<1>1. Bounds'
  <2>1. \A g \in Sources : AtLeast(hdr, obj'[g].hdr)
    BY DEF TypeOK, Bounds, Object
  <2>2. QED
    BY <2>1 DEF TypeOK, Bounds, Times
<1>2. InRun'
  BY DEF InRun
<1>3. SoundDisk'
  <2>1. ASSUME NEW g \in Sources \ AtRisk, srcStamp[g] = src[g], incStamp = hdr
        PROVE  obj'[g] = obj[g] /\ Good(g) /\ includeStamps = hdr
    BY <2>1, EndRef DEF TypeOK, SoundDisk, Matches
  <2>2. QED
    BY <2>1 DEF SoundDisk, Matches, Good
<1>4. Done'
  BY DEF Done
<1>5. Settled'
  BY DEF Settled
<1>6. QED
  BY <1>1, <1>2, <1>3, <1>4, <1>5

\* With the queue empty every listed source is good; the others are at risk.
LEMMA OpenStampsStep == ASSUME IInv, TypeOK', OpenStamps PROVE IInv'
<1> USE DEF OpenStamps, IInv, files, disk, run, history, Ref, AtRisk, AtLeast,
            NoLine, NoSrc, NoInc, None
<1>1. Bounds'
  BY DEF TypeOK, Bounds, Times
<1>2. InRun'
  BY DEF InRun
<1>3. SoundDisk'
  BY DEF Bounds, SoundDisk, Matches
<1>4. Done'
  BY DEF InRun, Done, Good, UpToDate
<1>5. Settled'
  BY DEF Settled
<1>6. QED
  BY <1>1, <1>2, <1>3, <1>4, <1>5

\* Every line written is that of a good object, or of a source at risk.
LEMMA WriteStampsStep == ASSUME IInv, TypeOK', WriteStamps PROVE IInv'
<1> USE DEF WriteStamps, NewSrcStamp, IInv, files, disk, run, history, Ref,
            AtRisk, AtLeast, NoLine, NoSrc, NoInc, None
<1>1. Bounds'
  BY DEF TypeOK, Bounds, Times
<1>2. InRun'
  BY DEF InRun
<1>3. SoundDisk'
  BY DEF Bounds, InRun, SoundDisk, Done, Matches, Good
<1>4. Done'
  BY DEF Done, UpToDate
<1>5. Settled'
  BY DEF TypeOK, Settled, Matches
<1>6. QED
  BY <1>1, <1>2, <1>3, <1>4, <1>5

\* What is linked is what the run found or made.
LEMMA LinkStep == ASSUME IInv, TypeOK', Link PROVE IInv'
<1> USE DEF Link, IInv, files, disk, run, history, Ref, AtRisk, AtLeast, NoLine,
            NoSrc, NoInc, None
<1>1. Bounds'
  BY DEF Bounds
<1>2. InRun'
  BY DEF InRun
<1>3. SoundDisk'
  BY DEF SoundDisk, Matches, Good
<1>4. Done'
  BY DEF InRun, Done, UpToDate
<1>5. Settled'
  BY DEF Settled, Matches
<1>6. QED
  BY <1>1, <1>2, <1>3, <1>4, <1>5

\* The files become the reference again: EndRef.
LEMMA ExitStep == ASSUME IInv, TypeOK', Exit PROVE IInv'
<1> USE DEF Exit, NoRun, IInv, files, disk, run, history, Ref, AtRisk, AtLeast,
            NoLine, NoSrc, NoInc, None
<1>1. Bounds'
  BY DEF TypeOK, Bounds, Times
<1>2. InRun'
  BY DEF InRun
<1>3. SoundDisk'
  BY EndRef DEF SoundDisk, Matches, Good
<1>4. Done'
  BY DEF Done
<1>5. Settled'
  BY DEF Settled, Matches
<1>6. QED
  BY <1>1, <1>2, <1>3, <1>4, <1>5

\* Any part of the lines about to be written is as sound as all of them.
LEMMA KilledStep == ASSUME IInv, TypeOK', Killed PROVE IInv'
<1> USE DEF Killed, NoRun, NewSrcStamp, IInv, files, disk, run, history, Ref,
            AtRisk, AtLeast, NoLine, NoSrc, NoInc, None
<1>1. Bounds'
  <2>1. \A g \in Sources : AtLeast(hdr, obj'[g].hdr)
    BY DEF Bounds
  <2>2. \A g \in Sources : srcStamp'[g] <= src[g]
    BY DEF Bounds
  <2>3. \A d \in Incs : incStamp'[d] <= hdr[d]
    BY DEF TypeOK, Bounds, Times
  <2>4. QED
    BY <2>1, <2>2, <2>3 DEF Bounds
<1>2. InRun'
  BY DEF InRun
<1>3. SoundDisk'
  <2>0. CASE pc = "clean"
    BY <2>0 DEF SoundDisk, Matches, Good
  <2>1. CASE pc \notin {"stamp", "clean"}
    <3>1. ASSUME NEW g \in Sources \ AtRisk, srcStamp[g] = src[g], incStamp = hdr
          PROVE  obj'[g] = obj[g] /\ Good(g) /\ includeStamps = hdr
      BY <2>1, <3>1, EndRef DEF SoundDisk, Matches
    <3>2. QED
      BY <2>1, <3>1 DEF SoundDisk, Matches, Good
  <2>2. CASE pc = "stamp"
    <3>1. ASSUME incStamp' = hdr
          PROVE  includeStamps = hdr
      <4>1. \A d \in Incs : includeStamps[d] = hdr[d]
        BY <2>2, <3>1 DEF Bounds
      <4>2. QED
        BY <4>1 DEF TypeOK
    <3>2. ASSUME NEW g \in Sources \ AtRisk, srcStamp'[g] = src[g]
          PROVE  Good(g)
      BY <2>2, <3>2 DEF Bounds, Done
    <3>3. QED
      BY <2>2, <3>1, <3>2 DEF SoundDisk, Matches, Good
  <2>3. QED
    BY <2>0, <2>1, <2>2
<1>4. Done'
  BY DEF Done
<1>5. Settled'
  BY DEF Settled
<1>6. QED
  BY <1>1, <1>2, <1>3, <1>4, <1>5

\* The invariant is inductive.
LEMMA InvStep == IInv /\ [Next]_vars => IInv'
<1> SUFFICES ASSUME IInv, [Next]_vars PROVE IInv'
  OBVIOUS
<1>0. TypeOK'
  BY TypeStep DEF IInv
<1>1. CASE Developer
  BY <1>0, <1>1, EditSourceStep, EditHeaderStep, RelistStep DEF Developer
<1>2. CASE Run
  BY <1>0, <1>2, CleanStep, LoadStep, LoadExitsStep, SelectStep, CompileStep,
     CompileFailsStep,
     OpenStampsStep, WriteStampsStep, LinkStep, ExitStep DEF Run
<1>3. CASE Killed
  BY <1>0, <1>3, KilledStep
<1>4. CASE UNCHANGED vars
  BY <1>4 DEF vars, files, disk, run, history, IInv, TypeOK, Bounds, InRun,
     SoundDisk,
              Done, Settled, Ref, AtRisk, AtLeast, Matches, Good, UpToDate
<1>5. QED
  BY <1>1, <1>2, <1>3, <1>4 DEF Next

\* The inductive invariant holds in every state of every sequence of builds.
THEOREM Invariance == Spec => []IInv
  BY InvInit, InvStep, PTL DEF Spec

-----------------------------------------------------------------------------
(* What the developer may rely on.                                         *)

\* Whatever was edited, killed or failed, and whenever, a run that links has an
\* object of every source it lists made from that source, and from every
\* header, as they were when the run started or later; except for sources
\* edited under a running build, stamped while they were not listed, or whose
\* object a clean removed that did not come to the stamps.
THEOREM LinkedFresh == Spec => []LinksFresh
<1>1. IInv => LinksFresh
  BY DEF IInv, Done, LinksFresh, FreshBut, AtRisk
<1>2. QED
  BY <1>1, Invariance, PTL

\* Between two runs, a source whose stamps all match has an up-to-date object,
\* with the same exceptions.
THEOREM StampsSound == Spec => []StampSound
<1>1. IInv => StampSound
  <2> SUFFICES ASSUME IInv, pc = "idle", NEW f \in Sources \ (edited \cup skipped \cup lost),
                      srcStamp[f] = src[f], incStamp = hdr
               PROVE  obj[f] = Fresh(f)
    BY DEF StampSound
  <2>1. obj[f].src = src[f] /\ AtLeast(obj[f].hdr, hdr) /\ AtLeast(hdr, obj[f].hdr)
    BY DEF IInv, SoundDisk, Bounds, Matches, Good, Ref, AtRisk
  <2>2. obj[f] \in Object /\ hdr \in [Incs -> Times]
    BY DEF IInv, TypeOK
  <2>3. \A d \in Incs : obj[f].hdr[d] = hdr[d]
    BY <2>1, <2>2 DEF AtLeast, Object, Times
  <2>4. obj[f].hdr = hdr
    BY <2>2, <2>3 DEF Object
  <2>5. QED
    BY <2>1, <2>2, <2>4 DEF Object, Fresh
<1>2. QED
  BY <1>1, Invariance, PTL

\* A run right after a complete one, with nothing changed, compiles nothing.
THEOREM CompilesNothingTwice == Spec => []NothingTwice
<1>1. IInv => NothingTwice
  BY DEF IInv, Settled, NothingTwice
<1>2. QED
  BY <1>1, Invariance, PTL
=============================================================================
