-------------------------- MODULE VirtualFSProofs ---------------------------
(***************************************************************************)
(* That tampering with a honeytoken is evident, that bait whose text got   *)
(* out is on record as read, and that the whole implements ShellFS, for    *)
(* any set of paths, any directory tree and any number of commands,        *)
(* reconnects and crashes.                                                 *)
(***************************************************************************)
EXTENDS VirtualFS, TLAPS

SeenFields == {"read", "modified", "removed", "swallowed", "drops", "persistence"}

\* What the honeytokens need of a file map, its baseline and the observations,
\* be it in memory or in the state file.
Evident(f, b, s) ==
    /\ DOMAIN f = Path /\ DOMAIN b = Path /\ DOMAIN s = SeenFields
    /\ \A p \in Honeytoken : b[p] = Original(p)
    /\ \A p \in Honeytoken : f[p] # Original(p) => p \in s.modified

\* The inductive invariant: the state file must be as good as memory, because
\* a reconnect makes it memory; no renderer may serve a honeytoken, because a
\* read would put its output in the file's place; and the session must know
\* all its honeytokens, because only those are noted.
EvidentInv ==
    /\ Evident(files, baseline, seen)
    /\ Evident(saved.files, saved.baseline, saved.seen)
    /\ dynamic \intersect Honeytoken = {}
    /\ Honeytoken \subseteq honey

\* A planted body is not the mark of a missing file.
LEMMA OriginalIsSome == \A p \in Path : Original(p) # None
<1>1. SUFFICES ASSUME NEW p \in Path PROVE <<p>> # None
  BY DEF Original
<1>2. 1 \in 0..MaxLen
  BY ContentAssumption
<1>3. <<p>> \in [1..1 -> Path \union Text \union {Fresh}]
  OBVIOUS
<1>4. <<p>> \in UNION {[1..n -> Path \union Text \union {Fresh}] : n \in 0..MaxLen}
  BY <1>2, <1>3
<1> QED
  BY <1>4, ContentAssumption

\* A read of any path leaves the honeytokens as they were.
LEMMA ReadIsHarmless ==
    ASSUME EvidentInv, NEW s \in Path, NEW body \in ReadBodies(s) \ {None}
    PROVE  Evident(FilesAfterRead(s, body), BaselineAfterRead(s, body), seen)
<1>1. s \in Honeytoken => body = files[s]
  BY DEF EvidentInv, ReadBodies, Rendered
<1>2. \A p \in Honeytoken : FilesAfterRead(s, body)[p] = files[p]
  BY <1>1, VfsAssumption DEF FilesAfterRead, EvidentInv, Evident
<1>3. \A p \in Honeytoken : BaselineAfterRead(s, body)[p] = baseline[p]
  BY OriginalIsSome, VfsAssumption DEF BaselineAfterRead, SetDefault, EvidentInv, Evident
<1>4. DOMAIN FilesAfterRead(s, body) = Path /\ DOMAIN BaselineAfterRead(s, body) = Path
  BY DEF FilesAfterRead, BaselineAfterRead, SetDefault, EvidentInv, Evident
<1> QED
  BY <1>2, <1>3, <1>4 DEF Evident, EvidentInv

\* Noting more leaves evident what was evident.
LEMMA ReadsKeep ==
    ASSUME NEW f, NEW b, NEW s, NEW P, Evident(f, b, s)
    PROVE  Evident(f, b, Reads(s, P))
BY DEF Evident, Reads, SeenFields

\* A write that is noted: whatever the new body, the path counts as modified
\* if it is a honeytoken.
LEMMA WriteIsNoted ==
    ASSUME NEW f, NEW b, NEW s, Evident(f, b, s), Honeytoken \subseteq honey,
           NEW p \in Path, NEW body
    PROVE  Evident([f EXCEPT ![p] = body], BaselineBefore(b, f, p), Writes(s, p))
<1>1. \A q \in Honeytoken : BaselineBefore(b, f, p)[q] = b[q]
  BY OriginalIsSome, VfsAssumption DEF BaselineBefore, SetDefault, Evident
<1>2. DOMAIN BaselineBefore(b, f, p) = Path
  BY DEF BaselineBefore, SetDefault, Evident
<1>3. Writes(s, p).modified = s.modified \union ({p} \intersect honey)
  BY DEF Writes, Evident, SeenFields
<1>4. DOMAIN Writes(s, p) = SeenFields
  BY DEF Writes, Evident
<1> QED
  BY <1>1, <1>2, <1>3, <1>4, VfsAssumption DEF Evident

\* So does a removal.
LEMMA UnlinkIsNoted ==
    ASSUME NEW f, NEW b, NEW s, Evident(f, b, s), Honeytoken \subseteq honey,
           NEW p \in Path, NEW body
    PROVE  Evident([f EXCEPT ![p] = body], b, Unlinks(s, p))
<1>1. Unlinks(s, p).modified = s.modified \union ({p} \intersect honey)
  BY DEF Unlinks, Evident, SeenFields
<1>2. DOMAIN Unlinks(s, p) = SeenFields
  BY DEF Unlinks, Evident
<1> QED
  BY <1>1, <1>2, VfsAssumption DEF Evident

\* What is written or removed without being noted is no honeytoken.
LEMMA OthersAreFree ==
    ASSUME NEW f, NEW b, NEW s, Evident(f, b, s), NEW p \in Path \ Honeytoken, NEW body
    PROVE  /\ Evident([f EXCEPT ![p] = body], b, s)
           /\ Evident([f EXCEPT ![p] = body], BaselineBefore(b, f, p), s)
BY VfsAssumption DEF Evident, BaselineBefore, SetDefault

\* Memory is what a step disturbs while the state file rests.
LEMMA MemoryStep ==
    ASSUME EvidentInv, Evident(files', baseline', seen'),
           UNCHANGED <<saved, dynamic, honey>>
    PROVE  EvidentInv'
BY DEF EvidentInv

LEMMA EvidentInit == Init => EvidentInv
<1> SUFFICES ASSUME Init PROVE EvidentInv
  OBVIOUS
<1>1. Evident(files, baseline, seen)
  BY VfsAssumption DEF Init, Evident, SeedFiles, SeedBaseline, FreshSeen, SeenFields
<1>2. saved.files = files /\ saved.baseline = baseline /\ saved.seen = seen
  BY DEF Init, ToDict
<1> QED
  BY <1>1, <1>2, VfsAssumption DEF Init, EvidentInv

\* Every step keeps the invariant.
LEMMA EvidentNext == EvidentInv /\ [Next]_vars => EvidentInv'
<1> SUFFICES ASSUME EvidentInv, [Next]_vars PROVE EvidentInv'
  OBVIOUS
<1>h. Honeytoken \subseteq honey /\ Evident(files, baseline, seen)
  BY DEF EvidentInv
<1>k. \A d \in Dir : KeepOf[d] \in Path \ Honeytoken
  BY VfsAssumption
<1>1. ASSUME NEW p \in Path, NEW t \in Text, NEW append \in BOOLEAN, Echo(p, t, append)
      PROVE  EvidentInv'
  <2>1. Evident(files', baseline', seen')
    BY <1>h, <1>1, WriteIsNoted DEF Echo, WriteTo
  <2> QED
    BY <2>1, <1>1, MemoryStep DEF Echo, WriteTo, Command
<1>2. ASSUME NEW p \in Path, Truncate(p) PROVE EvidentInv'
  <2>1. Evident(files', baseline', seen')
    BY <1>h, <1>2, WriteIsNoted DEF Truncate, WriteTo
  <2> QED
    BY <2>1, <1>2, MemoryStep DEF Truncate, WriteTo, Command
<1>3. ASSUME NEW p \in Path, Touch(p) PROVE EvidentInv'
  <2>1. ASSUME files[p] = None PROVE Evident(files', baseline', seen')
    <3>1. Evident(files', BaselineBefore(baseline, files, p), seen')
      BY <2>1, <1>h, <1>3, WriteIsNoted DEF Touch, SetDefault
    <3> QED
      BY <3>1, <1>h, <1>3 DEF Evident, Touch
  <2>2. ASSUME files[p] # None PROVE Evident(files', baseline', seen')
    BY <2>2, <1>h, <1>3 DEF Touch, SetDefault, Evident, Writes, SeenFields
  <2>3. Evident(files', baseline', seen')
    BY <2>1, <2>2
  <2> QED
    BY <2>3, <1>3, MemoryStep DEF Touch, Command
<1>4. ASSUME NEW p \in Path, Rm(p) PROVE EvidentInv'
  <2>1. Evident(files', baseline', seen')
    BY <1>h, <1>4, UnlinkIsNoted DEF Rm, Unlink
  <2> QED
    BY <2>1, <1>4, MemoryStep DEF Rm, Unlink, Command
<1>5. ASSUME NEW s \in Path, NEW d \in Path, Cp(s, d) PROVE EvidentInv'
  <2>1. PICK body \in ReadBodies(s) \ {None} :
            /\ WriteTo(FilesAfterRead(s, body), BaselineAfterRead(s, body), d, body)
            /\ seen' = Writes(Reads(seen, {s}), d)
    BY <1>5 DEF Cp
  <2>2. Evident(FilesAfterRead(s, body), BaselineAfterRead(s, body), Reads(seen, {s}))
    BY ReadIsHarmless, ReadsKeep
  <2>3. Evident(files', baseline', seen')
    BY <2>1, <2>2, <1>h, WriteIsNoted DEF WriteTo
  <2> QED
    BY <2>1, <2>3, <1>5, MemoryStep DEF Cp, WriteTo, Command
<1>6. ASSUME NEW s \in Path, NEW d \in Path, Mv(s, d) PROVE EvidentInv'
  <2>1. PICK body \in ReadBodies(s) \ {None} :
            /\ files' = [[FilesAfterRead(s, body) EXCEPT ![d] = body] EXCEPT ![s] = None]
            /\ baseline' = BaselineBefore(BaselineAfterRead(s, body), FilesAfterRead(s, body), d)
            /\ seen' = Unlinks(Writes(Reads(seen, {s}), d), s)
    BY <1>6 DEF Mv
  <2>2. Evident(FilesAfterRead(s, body), BaselineAfterRead(s, body), Reads(seen, {s}))
    BY ReadIsHarmless, ReadsKeep
  <2>3. Evident([FilesAfterRead(s, body) EXCEPT ![d] = body], baseline',
                Writes(Reads(seen, {s}), d))
    BY <2>1, <2>2, <1>h, WriteIsNoted
  <2>4. Evident(files', baseline', seen')
    BY <2>1, <2>3, <1>h, UnlinkIsNoted
  <2> QED
    BY <2>4, <1>6, MemoryStep DEF Mv, Command
<1>7. ASSUME NEW d \in Dir, NEW pflag \in BOOLEAN, Mkdir(d, pflag) PROVE EvidentInv'
  <2>1. Evident(files', baseline', seen')
    BY <1>h, <1>k, <1>7, WriteIsNoted DEF Mkdir, WriteTo
  <2> QED
    BY <2>1, <1>7, MemoryStep DEF Mkdir, WriteTo, Command
<1>8. ASSUME NEW d \in Dir, Rmdir(d) PROVE EvidentInv'
  <2>1. Evident(files', baseline', seen')
    BY <1>h, <1>k, <1>8, OthersAreFree DEF Rmdir, Unlink
  <2> QED
    BY <2>1, <1>8, MemoryStep DEF Rmdir, Unlink, Command
<1>9. ASSUME NEW p \in Path, NEW body \in ReadBodies(p) \ {None}, Command,
             files' = FilesAfterRead(p, body), baseline' = BaselineAfterRead(p, body),
             seen' = Reads(seen, {p}), UNCHANGED dynamic
      PROVE  EvidentInv'
  <2>1. Evident(files', baseline', seen')
    BY <1>9, ReadIsHarmless, ReadsKeep
  <2> QED
    BY <2>1, <1>9, MemoryStep DEF Command
<1>10. ASSUME NEW p \in Path, Cat(p) PROVE EvidentInv'
  BY <1>9, <1>10 DEF Cat, Reading
<1>11. ASSUME NEW p \in Path, NEW shown, TextProc(p, shown) PROVE EvidentInv'
  BY <1>9, <1>11 DEF TextProc, Reading
<1>12. ASSUME NEW p \in Path, NEW recursive \in BOOLEAN, NEW pattern, Grep(p, recursive, pattern)
       PROVE  EvidentInv'
  <2>1. PICK how \in RenderChoice(GrepFiles(p, recursive)) :
            /\ files' = [q \in Path |-> IF q \in GrepFiles(p, recursive) THEN BodyUnder(q, how)
                                        ELSE files[q]]
            /\ baseline' = [q \in Path |-> IF q \in GrepFiles(p, recursive) /\ baseline[q] = None
                                           THEN BodyUnder(q, how) ELSE baseline[q]]
    BY <1>12 DEF Grep
  <2>2. \A q \in Honeytoken : BodyUnder(q, how) = files[q]
    BY <2>1 DEF EvidentInv, BodyUnder, RenderChoice, Rendered
  <2>3. \A q \in Honeytoken : files'[q] = files[q] /\ baseline'[q] = baseline[q]
    BY <2>1, <2>2, <1>h, OriginalIsSome, VfsAssumption DEF Evident
  <2>4. PICK P : seen' = Reads(seen, P)
    BY <1>12 DEF Grep
  <2>5. Evident(files', baseline', seen)
    BY <2>1, <2>3, <1>h DEF Evident
  <2>6. Evident(files', baseline', seen')
    BY <2>4, <2>5, ReadsKeep
  <2> QED
    BY <2>6, <1>12, MemoryStep DEF Grep, Command
<1>13. ASSUME NEW p \in DecoyFile, PlantDecoy(p) PROVE EvidentInv'
  <2>1. p \in Path \ Honeytoken
    BY ContentAssumption, VfsAssumption
  <2>2. Evident(files', baseline', seen')
    BY <2>1, <1>h, <1>13, OthersAreFree DEF PlantDecoy
  <2> QED
    BY <2>1, <2>2, <1>13 DEF PlantDecoy, EvidentInv
<1>14. CASE Reconnect
  <2>1. /\ files' = files /\ baseline' = baseline /\ seen' = seen
        /\ saved'.files = files /\ saved'.baseline = baseline /\ saved'.seen = seen
        /\ dynamic' = LogFile /\ honey' = Honeytoken
    BY <1>14 DEF Reconnect, Restore, ToDict
  <2> QED
    BY <2>1, <1>h, VfsAssumption DEF EvidentInv
<1>15. CASE Crash
  BY <1>15, VfsAssumption DEF Crash, Restore, EvidentInv
<1>16. CASE UNCHANGED vars
  BY <1>16 DEF vars, vfsVars, EvidentInv
<1>19. ASSUME NEW S \in SUBSET Path, NEW shown, ModelAnswers(S, shown) PROVE EvidentInv'
  BY <1>19 DEF ModelAnswers, vfsVars, EvidentInv
<1>17. CASE \E p \in Path, pattern \in Patterns : Grep(p, FALSE, pattern)
  BY <1>12, <1>17
<1>18. CASE \E d \in Dir, pattern \in Patterns : Grep(d, TRUE, pattern)
  BY <1>12, <1>18, VfsAssumption
<1> QED
  BY <1>1, <1>2, <1>3, <1>4, <1>5, <1>6, <1>7, <1>8, <1>10, <1>11, <1>13, <1>14, <1>15,
     <1>16, <1>17, <1>18, <1>19, Zenon DEF Next

\* A honeytoken that no longer reads as planted has been noted as modified,
\* and its baseline is still the planted text (observe_vfs_event,
\* VirtualFS.write, to_dict and restore).
THEOREM TamperingIsAlwaysEvident == Spec => []TamperingIsEvident
<1>1. EvidentInv => TamperingIsEvident
  BY DEF EvidentInv, Evident, TamperingIsEvident
<1> QED
  BY <1>1, EvidentInit, EvidentNext, PTL DEF Spec

-----------------------------------------------------------------------------
(* Bait that was taken                                                     *)
(*                                                                         *)
(* The argument: the planted text of p gets out of p only in a prompt of   *)
(* the language model, whose answer goes to the screen and no further, or  *)
(* through a read of p, which is noted, or a read of a file that already has it, and it   *)
(* got there by a read of p.  The text of a decoy does not exist before    *)
(* the decoy is planted, and the state file is as good as memory.          *)

Noted(p, s, pl) == (p \in Credential => p \in s.read) /\ (p \in pl => p \in s.swallowed)

\* A body of q that gives nothing away that was not noted.
Clean(body, q, s, pl) ==
    \A p \in Path : Holds(body, p) => (p = q \/ Noted(p, s, pl)) /\ (p \in DecoyFile => p \in pl)

Kept(f, s, pl) ==
    /\ f \in [Path -> Seq(Line) \union {None}] /\ DOMAIN s = SeenFields
    /\ \A q \in Path : Clean(f[q], q, s, pl)

Shown ==
    /\ DOMAIN out = Path
    /\ \A q, p \in Path :
          Holds(out[q], p) => /\ source = "builtin" \/ p \in Unprompted => Noted(p, seen, planted)
                              /\ p \in DecoyFile => p \in planted

BaitInv ==
    /\ Kept(files, seen, planted) /\ Kept(saved.files, saved.seen, saved.planted)
    /\ Shown
    /\ Honeytoken \subseteq honey /\ dynamic \subseteq LogFile \union planted
    /\ planted \subseteq DecoyFile /\ saved.planted \subseteq DecoyFile

\* What a read of p can come back with.
ReadOf(p, body) == body = files[p] \/ (Rendered(p) /\ body \in Renderings(p))

LEMMA TwoLines ==
    ASSUME NEW p \in Path
    PROVE  /\ Original(p) \in Seq(Line) /\ \A l : Holds(Original(p), l) => l = p
           /\ \A body \in Renderings(p) : body \in Seq(Line) /\ \A l \in Path : Holds(body, l) => l = p
<1>1. Original(p) = <<p>> /\ Original(p) \in Seq(Line) /\ DOMAIN Original(p) = {1} /\ Original(p)[1] = p
  BY DEF Original, Line
<1>2. \A l : Holds(Original(p), l) => l = p
  BY <1>1 DEF Holds
<1>3. PICK b : b = Append(Original(p), Fresh)
  OBVIOUS
<1>4. b \in Seq(Line) /\ DOMAIN b = {1, 2} /\ b[1] = p /\ b[2] = Fresh
  BY <1>1, <1>3 DEF Line
<1>5. \A l \in Path : Holds(b, l) => l = p
  BY <1>4, ContentAssumption DEF Holds
<1> QED
  BY <1>1, <1>2, <1>3, <1>5, <1>4 DEF Renderings

LEMMA ReadIsClean ==
    ASSUME BaitInv, NEW p \in Path, NEW body, ReadOf(p, body)
    PROVE  body \in Seq(Line) \union {None} /\ Clean(body, p, seen, planted)
<1>1. CASE body = files[p]
  BY <1>1 DEF BaitInv, Kept
<1>2. CASE Rendered(p) /\ body \in Renderings(p)
  <2>1. body \in Seq(Line) /\ \A l \in Path : Holds(body, l) => l = p
    BY <1>2, TwoLines
  <2>2. p \in DecoyFile => p \in planted
    BY <1>2, ContentAssumption DEF Rendered, BaitInv
  <2> QED
    BY <2>1, <2>2 DEF Clean
<1> QED
  BY <1>1, <1>2 DEF ReadOf

\* A clean body in the place of p keeps the files clean.
LEMMA CleanPut ==
    ASSUME NEW f, NEW s, NEW pl, Kept(f, s, pl), NEW p \in Path, NEW body \in Seq(Line) \union {None}, Clean(body, p, s, pl)
    PROVE  Kept([f EXCEPT ![p] = body], s, pl)
BY DEF Kept

\* More observations keep them clean, and so does a body without planted text.
LEMMA MoreNoted ==
    ASSUME NEW f, NEW s, NEW t, NEW pl, Kept(f, s, pl), DOMAIN t = SeenFields,
           s.read \subseteq t.read, s.swallowed \subseteq t.swallowed
    PROVE  Kept(f, t, pl) /\ \A b, q : Clean(b, q, s, pl) => Clean(b, q, t, pl)
BY DEF Kept, Clean, Noted

LEMMA NoText == ASSUME NEW body, \A p \in Path : ~Holds(body, p), NEW q, NEW s, NEW pl PROVE Clean(body, q, s, pl)
BY DEF Clean

LEMMA EmptyBodies ==
    /\ <<>> \in Seq(Line) /\ \A p : ~Holds(<<>>, p) /\ ~Holds(None, p)
    /\ \A t \in Text : <<t>> \in Seq(Line) /\ \A p \in Path : ~Holds(<<t>>, p)
<1>1. <<>> \in Seq(Line) /\ \A p : ~Holds(<<>>, p) /\ ~Holds(None, p)
  BY DEF Holds
<1>2. ASSUME NEW t \in Text PROVE <<t>> \in Seq(Line) /\ \A p \in Path : ~Holds(<<t>>, p)
  <2>1. <<t>> \in Seq(Line) /\ DOMAIN <<t>> = {1} /\ <<t>>[1] = t
    BY DEF Line
  <2> QED
    BY <2>1, ContentAssumption DEF Holds
<1> QED
  BY <1>1, <1>2

\* What each kind of event adds.
LEMMA EventsAdd ==
    ASSUME NEW s, DOMAIN s = SeenFields, NEW p, NEW P
    PROVE  /\ DOMAIN Reads(s, P) = SeenFields /\ DOMAIN Writes(s, p) = SeenFields /\ DOMAIN Unlinks(s, p) = SeenFields
           /\ Writes(s, p).read = s.read /\ Writes(s, p).swallowed = s.swallowed
           /\ Unlinks(s, p).read = s.read /\ Unlinks(s, p).swallowed = s.swallowed
           /\ Reads(s, P).read = s.read \union {q \in P : q \in honey /\ IsCredential(q)}
           /\ Reads(s, P).swallowed = s.swallowed \union (P \intersect planted)
BY DEF Reads, Writes, Unlinks, SeenFields

\* What was read is noted.
LEMMA ReadIsNoted ==
    ASSUME BaitInv, NEW s, DOMAIN s = SeenFields, NEW P, NEW p \in P PROVE Noted(p, Reads(s, P), planted)
<1>1. p \in Credential => p \in honey /\ IsCredential(p)
  BY VfsAssumption DEF BaitInv, IsCredential
<1> QED
  BY <1>1, EventsAdd DEF Noted

\* A command that prints nothing leaves the invariant to the files.
LEMMA SilentStep ==
    ASSUME BaitInv, Kept(files', seen', planted), NothingPrinted, UNCHANGED <<dynamic, honey, planted, saved>>
    PROVE  BaitInv'
<1>1. DOMAIN out' = Path /\ \A q \in Path : out'[q] = None
  BY DEF NothingPrinted, Silent
<1>2. \A q, p \in Path : ~Holds(out'[q], p)
  BY <1>1 DEF Holds
<1>3. Shown'
  BY <1>1, <1>2 DEF Shown
<1>4. Kept(saved.files, saved.seen, saved.planted)'
  BY DEF BaitInv, Kept, Clean, Holds, Noted
<1>5. Kept(files, seen, planted)'
  BY DEF Kept, Clean, Holds, Noted
<1> QED
  BY <1>3, <1>4, <1>5 DEF BaitInv

LEMMA BaitInit == Init => BaitInv
<1> SUFFICES ASSUME Init PROVE BaitInv
  OBVIOUS
<1>1. /\ files = SeedFiles /\ seen = FreshSeen /\ planted = {} /\ out = Silent
      /\ saved.files = files /\ saved.seen = seen /\ saved.planted = planted
      /\ honey = Honeytoken /\ dynamic = LogFile
  BY DEF Init, ToDict
<1>2. ASSUME NEW q \in Path
      PROVE  SeedFiles[q] \in Seq(Line) \union {None} /\ Clean(SeedFiles[q], q, seen, planted)
  <2>1. CASE q \in Honeytoken \union System
    <3>1. SeedFiles[q] = Original(q) /\ q \notin DecoyFile
      BY <2>1, VfsAssumption DEF SeedFiles
    <3> QED
      BY <3>1, TwoLines DEF Clean
  <2>2. CASE q \notin Honeytoken \union System
    <3>1. SeedFiles[q] = <<>> \/ SeedFiles[q] = None
      BY <2>2 DEF SeedFiles
    <3> QED
      BY <3>1, EmptyBodies DEF Clean
  <2> QED
    BY <2>1, <2>2
<1>3. DOMAIN seen = SeenFields
  BY <1>1 DEF FreshSeen, SeenFields
<1>4. SeedFiles \in [Path -> Seq(Line) \union {None}]
  BY <1>2 DEF SeedFiles
<1>5. Kept(files, seen, planted)
  BY <1>1, <1>2, <1>3, <1>4 DEF Kept
<1>6. Shown
  BY <1>1, EmptyBodies DEF Shown, Silent
<1> QED
  BY <1>1, <1>5, <1>6 DEF BaitInv

\* A write of p that was noted, after s was read or nothing was.
LEMMA WriteStaysKept ==
    ASSUME NEW f, NEW s, NEW pl, Kept(f, s, pl), NEW p \in Path,
           NEW body \in Seq(Line) \union {None}, Clean(body, p, s, pl)
    PROVE  Kept([f EXCEPT ![p] = body], Writes(s, p), pl) /\ Kept([f EXCEPT ![p] = body], Unlinks(s, p), pl)
<1>1. Kept([f EXCEPT ![p] = body], s, pl)
  BY CleanPut
<1>2. DOMAIN s = SeenFields
  BY DEF Kept
<1> QED
  BY <1>1, <1>2, EventsAdd, MoreNoted

\* A line that the intruder appends is no planted text.
LEMMA AppendedIsClean ==
    ASSUME NEW body \in Seq(Line) \ {None}, NEW t \in Text, NEW q, NEW s, NEW pl, Clean(body, q, s, pl)
    PROVE  Append(body, t) \in Seq(Line) /\ Clean(Append(body, t), q, s, pl)
<1>1. PICK b : b = Append(body, t)
  OBVIOUS
<1>2. t \in Line /\ t \notin Path
  BY ContentAssumption DEF Line
<1>3. /\ b \in Seq(Line) /\ DOMAIN b = 1..(Len(body) + 1) /\ b[Len(body) + 1] = t
      /\ DOMAIN body = 1..Len(body) /\ \A i \in 1..Len(body) : b[i] = body[i]
  BY <1>1, <1>2
<1>4. ASSUME NEW p \in Path, Holds(b, p) PROVE Holds(body, p)
  <2>1. PICK i \in DOMAIN b : b[i] = p
    BY <1>4 DEF Holds
  <2>2. i # Len(body) + 1
    BY <2>1, <1>2, <1>3
  <2>3. i \in DOMAIN body /\ body[i] = p
    BY <2>1, <2>2, <1>3
  <2> QED
    BY <2>3 DEF Holds
<1> QED
  BY <1>1, <1>3, <1>4 DEF Clean

\* So does one that prints only what was noted.
LEMMA PrintStep ==
    ASSUME BaitInv, Kept(files', seen', planted), DOMAIN out' = Path,
           \A q, p \in Path : Holds(out'[q], p)
                => Noted(p, seen', planted) /\ (p \in DecoyFile => p \in planted),
           UNCHANGED <<dynamic, honey, planted, saved>>
    PROVE  BaitInv'
<1>1. Shown'
  BY DEF Shown, Noted, Holds
<1>2. Kept(saved.files, saved.seen, saved.planted)'
  BY DEF BaitInv, Kept, Clean, Holds, Noted
<1>3. Kept(files, seen, planted)'
  BY DEF Kept, Clean, Holds, Noted
<1> QED
  BY <1>1, <1>2, <1>3 DEF BaitInv

\* A search prints no line that the body does not hold.
LEMMA MatchingHolds ==
    ASSUME NEW body, NEW pattern, NEW l, Holds(Matching(body, pattern), l)
    PROVE  Holds(body, l)
<1>1. body # None /\ Matching(body, pattern) = Restrict(body, {i \in DOMAIN body : body[i] \in pattern})
  BY DEF Holds, Matching
<1>2. PICK r : r = Restrict(body, {i \in DOMAIN body : body[i] \in pattern})
  OBVIOUS
<1>3. DOMAIN r \subseteq DOMAIN body /\ \A i \in DOMAIN r : r[i] = body[i]
  BY <1>2 DEF Restrict
<1>4. \E i \in DOMAIN r : r[i] = l
  BY <1>1, <1>2 DEF Holds
<1> QED
  BY <1>1, <1>3, <1>4 DEF Holds

\* The body that a read of p brought back may be put anywhere once the read
\* is noted: its own text is noted with it.
LEMMA ReadThenAnywhere ==
    ASSUME BaitInv, NEW P, NEW p \in P, p \in Path, NEW body, ReadOf(p, body)
    PROVE  /\ \A l \in Path : Holds(body, l)
                 => Noted(l, Reads(seen, P), planted) /\ (l \in DecoyFile => l \in planted)
           /\ \A d \in Path : Clean(body, d, Reads(seen, P), planted)
<1>1. Clean(body, p, seen, planted)
  BY ReadIsClean
<1>2. DOMAIN seen = SeenFields
  BY DEF BaitInv, Kept
<1>3. Noted(p, Reads(seen, P), planted)
  BY <1>2, ReadIsNoted
<1>4. \A l : Noted(l, seen, planted) => Noted(l, Reads(seen, P), planted)
  BY <1>2, EventsAdd DEF Noted
<1>5. \A l \in Path : Holds(body, l)
                 => Noted(l, Reads(seen, P), planted) /\ (l \in DecoyFile => l \in planted)
  BY <1>1, <1>3, <1>4 DEF Clean
<1> QED
  BY <1>5 DEF Clean

\* What a read leaves of the files.
LEMMA ReadStaysKept ==
    ASSUME BaitInv, NEW p \in Path, NEW body, ReadOf(p, body)
    PROVE  Kept(FilesAfterRead(p, body), Reads(seen, {p}), planted)
<1>1. body \in Seq(Line) \union {None} /\ Clean(body, p, seen, planted)
  BY ReadIsClean
<1>2. Kept(FilesAfterRead(p, body), seen, planted)
  BY <1>1, CleanPut DEF FilesAfterRead, BaitInv
<1>3. DOMAIN seen = SeenFields
  BY DEF BaitInv, Kept
<1> QED
  BY <1>2, <1>3, EventsAdd, MoreNoted

LEMMA ReadBodiesAreReads == \A p : \A body \in ReadBodies(p) \ {None} : ReadOf(p, body)
BY DEF ReadBodies, ReadOf

\* Every step keeps the invariant.
LEMMA BaitNext == BaitInv /\ [Next]_vars => BaitInv'
<1> SUFFICES ASSUME BaitInv, [Next]_vars PROVE BaitInv'
  OBVIOUS
<1>k. Kept(files, seen, planted) /\ DOMAIN seen = SeenFields /\ DOMAIN files = Path
  BY DEF BaitInv, Kept
<1>d. \A d \in Dir : KeepOf[d] \in Path
  BY VfsAssumption
<1>e. <<>> \in Seq(Line) /\ \A q \in Path : Clean(<<>>, q, seen, planted) /\ Clean(None, q, seen, planted)
  BY EmptyBodies DEF Clean
<1>1. ASSUME NEW p \in Path, NEW t \in Text, NEW append \in BOOLEAN, Echo(p, t, append)
      PROVE  BaitInv'
  <2>1. PICK body : /\ body = IF append /\ files[p] # None THEN Append(files[p], t) ELSE <<t>>
                    /\ files' = [files EXCEPT ![p] = body]
    BY <1>1 DEF Echo, WriteTo
  <2>2. body \in Seq(Line) /\ Clean(body, p, seen, planted)
    <3>1. CASE append /\ files[p] # None
      <4>1. files[p] \in Seq(Line) \ {None} /\ Clean(files[p], p, seen, planted)
        BY <3>1, <1>k DEF Kept
      <4> QED
        BY <4>1, <3>1, <2>1, AppendedIsClean
    <3>2. CASE ~(append /\ files[p] # None)
      BY <3>2, <2>1, EmptyBodies DEF Clean
    <3> QED
      BY <3>1, <3>2
  <2>3. Kept(files', seen', planted)
    BY <2>1, <2>2, <1>1, <1>k, WriteStaysKept DEF Echo
  <2> QED
    BY <2>3, <1>1, SilentStep DEF Echo, WriteTo, Command
<1>2. ASSUME NEW p \in Path, Truncate(p) PROVE BaitInv'
  <2>1. Kept(files', seen', planted)
    BY <1>2, <1>k, <1>e, WriteStaysKept DEF Truncate, WriteTo
  <2> QED
    BY <2>1, <1>2, SilentStep DEF Truncate, WriteTo, Command
<1>3. ASSUME NEW p \in Path, Touch(p) PROVE BaitInv'
  <2>1. Kept(files', seen', planted)
    <3>1. CASE files[p] = None
      BY <3>1, <1>3, <1>k, <1>e, WriteStaysKept DEF Touch, SetDefault
    <3>2. CASE files[p] # None
      <4>1. files' = files /\ seen' = Writes(seen, p)
        BY <3>2, <1>3 DEF Touch, SetDefault
      <4> QED
        BY <4>1, <1>k, EventsAdd, MoreNoted
    <3> QED
      BY <3>1, <3>2
  <2> QED
    BY <2>1, <1>3, SilentStep DEF Touch, Command
<1>4. ASSUME NEW p \in Path, Rm(p) PROVE BaitInv'
  <2>1. Kept(files', seen', planted)
    BY <1>4, <1>k, <1>e, WriteStaysKept DEF Rm, Unlink
  <2> QED
    BY <2>1, <1>4, SilentStep DEF Rm, Unlink, Command
<1>5. ASSUME NEW s \in Path, NEW d \in Path, Cp(s, d) PROVE BaitInv'
  <2>1. PICK body \in ReadBodies(s) \ {None} :
            /\ WriteTo(FilesAfterRead(s, body), BaselineAfterRead(s, body), d, body)
            /\ seen' = Writes(Reads(seen, {s}), d)
    BY <1>5 DEF Cp
  <2>2. ReadOf(s, body) /\ body \in Seq(Line) \union {None}
    BY ReadBodiesAreReads, ReadIsClean
  <2>3. Kept(FilesAfterRead(s, body), Reads(seen, {s}), planted)
    BY <2>2, ReadStaysKept
  <2>4. Clean(body, d, Reads(seen, {s}), planted)
    BY <2>2, ReadThenAnywhere
  <2>5. Kept(files', seen', planted)
    BY <2>1, <2>2, <2>3, <2>4, WriteStaysKept DEF WriteTo
  <2> QED
    BY <2>1, <2>5, <1>5, SilentStep DEF Cp, WriteTo, Command
<1>6. ASSUME NEW s \in Path, NEW d \in Path, Mv(s, d) PROVE BaitInv'
  <2>1. PICK body \in ReadBodies(s) \ {None} :
            /\ files' = [[FilesAfterRead(s, body) EXCEPT ![d] = body] EXCEPT ![s] = None]
            /\ seen' = Unlinks(Writes(Reads(seen, {s}), d), s)
    BY <1>6 DEF Mv
  <2>2. ReadOf(s, body) /\ body \in Seq(Line) \union {None}
    BY ReadBodiesAreReads, ReadIsClean
  <2>3. Kept(FilesAfterRead(s, body), Reads(seen, {s}), planted)
    BY <2>2, ReadStaysKept
  <2>4. Clean(body, d, Reads(seen, {s}), planted)
    BY <2>2, ReadThenAnywhere
  <2>5. Kept([FilesAfterRead(s, body) EXCEPT ![d] = body], Writes(Reads(seen, {s}), d), planted)
    BY <2>2, <2>3, <2>4, WriteStaysKept
  <2>6. Clean(None, s, Writes(Reads(seen, {s}), d), planted)
    BY EmptyBodies DEF Clean
  <2>7. Kept(files', seen', planted)
    BY <2>1, <2>5, <2>6, WriteStaysKept
  <2> QED
    BY <2>7, <1>6, SilentStep DEF Mv, Command
<1>7. ASSUME NEW d \in Dir, NEW pflag \in BOOLEAN, Mkdir(d, pflag) PROVE BaitInv'
  <2>1. Kept(files', seen', planted)
    BY <1>7, <1>k, <1>d, <1>e, WriteStaysKept DEF Mkdir, WriteTo
  <2> QED
    BY <2>1, <1>7, SilentStep DEF Mkdir, WriteTo, Command
<1>8. ASSUME NEW d \in Dir, Rmdir(d) PROVE BaitInv'
  <2>1. Kept(files', seen', planted)
    BY <1>8, <1>k, <1>d, <1>e, CleanPut DEF Rmdir, Unlink
  <2> QED
    BY <2>1, <1>8, SilentStep DEF Rmdir, Unlink, Command
<1>9. ASSUME NEW p \in Path, NEW shown, Reading(p, shown) PROVE BaitInv'
  <2>1. PICK body \in ReadBodies(p) \ {None} :
            /\ files' = FilesAfterRead(p, body)
            /\ out' = [Silent EXCEPT ![p] = Matching(body, shown)]
    BY <1>9 DEF Reading
  <2>2. seen' = Reads(seen, {p}) /\ UNCHANGED <<dynamic, honey, planted, saved>>
    BY <1>9 DEF Reading, Command
  <2>3. ReadOf(p, body)
    BY ReadBodiesAreReads
  <2>4. Kept(files', seen', planted)
    BY <2>1, <2>2, <2>3, ReadStaysKept
  <2>5. DOMAIN out' = Path /\ out'[p] = Matching(body, shown) /\ \A q \in Path \ {p} : out'[q] = None
    BY <2>1 DEF Silent
  <2>6. ASSUME NEW q \in Path, NEW l \in Path, Holds(out'[q], l)
        PROVE  Noted(l, seen', planted) /\ (l \in DecoyFile => l \in planted)
    <3>1. q = p
      BY <2>5, <2>6, EmptyBodies
    <3>2. Holds(body, l)
      BY <3>1, <2>5, <2>6, MatchingHolds
    <3> QED
      BY <3>2, <2>2, <2>3, ReadThenAnywhere
  <2> QED
    BY <2>2, <2>4, <2>5, <2>6, PrintStep
<1>10. ASSUME NEW p \in Path, Cat(p) PROVE BaitInv'
  BY <1>9, <1>10 DEF Cat
<1>11. ASSUME NEW p \in Path, NEW shown, TextProc(p, shown) PROVE BaitInv'
  BY <1>9, <1>11 DEF TextProc
<1>12. ASSUME NEW p \in Path, NEW recursive \in BOOLEAN, NEW pattern, Grep(p, recursive, pattern)
       PROVE  BaitInv'
  <2>s. PICK S : S = GrepFiles(p, recursive)
    OBVIOUS
  <2>h. PICK how \in RenderChoice(GrepFiles(p, recursive)) :
            LET W == GrepFiles(p, recursive)
                shown == [q \in Path |-> IF q \in W THEN Matching(BodyUnder(q, how), pattern) ELSE None]
            IN /\ out' = shown
               /\ files' = [q \in Path |-> IF q \in W THEN BodyUnder(q, how) ELSE files[q]]
               /\ seen' = Reads(seen, {q \in W : \E r \in W : Rank[r] <= Rank[q] /\ shown[r] # None})
    BY <1>12, Zenon DEF Grep
  <2>f. PICK printed : printed = [q \in Path |-> IF q \in S THEN Matching(BodyUnder(q, how), pattern) ELSE None]
    OBVIOUS
  <2>1. /\ how \in RenderChoice(S) /\ out' = printed
        /\ files' = [q \in Path |-> IF q \in S THEN BodyUnder(q, how) ELSE files[q]]
        /\ seen' = Reads(seen, {q \in S : \E r \in S : Rank[r] <= Rank[q] /\ printed[r] # None})
    BY <2>h, <2>s, <2>f
  <2>p. PICK P : P = {q \in S : \E r \in S : Rank[r] <= Rank[q] /\ printed[r] # None}
    OBVIOUS
  <2>2. seen' = Reads(seen, P) /\ UNCHANGED <<dynamic, honey, planted, saved>>
    BY <1>12, <2>1, <2>p DEF Grep, Command
  <2>3. ASSUME NEW q \in Path PROVE ReadOf(q, BodyUnder(q, how))
    BY <2>1 DEF ReadOf, BodyUnder, RenderChoice, Renderings
  <2>4. Kept(files', seen', planted)
    <3>1. ASSUME NEW q \in Path PROVE files'[q] \in Seq(Line) \union {None} /\ Clean(files'[q], q, seen, planted)
      <4>1. ReadOf(q, files'[q])
        BY <2>1, <2>3 DEF ReadOf
      <4> QED
        BY <4>1, ReadIsClean
    <3>2. files' \in [Path -> Seq(Line) \union {None}]
      BY <3>1, <2>1
    <3>3. Kept(files', seen, planted)
      BY <3>1, <3>2, <1>k DEF Kept
    <3> QED
      BY <3>3, <2>2, <1>k, EventsAdd, MoreNoted
  <2>5. DOMAIN out' = Path
    BY <2>1, <2>f
  <2>6. ASSUME NEW q \in Path, NEW l \in Path, Holds(out'[q], l)
        PROVE  Noted(l, seen', planted) /\ (l \in DecoyFile => l \in planted)
    <3>1. q \in S /\ out'[q] = Matching(BodyUnder(q, how), pattern)
      BY <2>1, <2>f, <2>6, EmptyBodies
    <3>2. printed[q] # None
      BY <2>1, <2>6 DEF Holds
    <3>3. Rank[q] <= Rank[q]
      BY VfsAssumption
    <3>4. q \in P
      BY <3>1, <3>2, <3>3, <2>p
    <3>5. Holds(BodyUnder(q, how), l)
      BY <3>1, <2>6, MatchingHolds
    <3> QED
      BY <3>4, <3>5, <2>2, <2>3, ReadThenAnywhere
  <2> QED
    BY <2>2, <2>4, <2>5, <2>6, PrintStep
<1>13. ASSUME NEW p \in DecoyFile, PlantDecoy(p) PROVE BaitInv'
  <2>1. /\ p \in Path /\ p \notin planted /\ files' = [files EXCEPT ![p] = Original(p)]
        /\ planted' = planted \union {p} /\ Honeytoken \subseteq honey'
        /\ dynamic' = dynamic \union {p} /\ UNCHANGED <<seen, saved, out, source>>
    BY <1>13, ContentAssumption DEF PlantDecoy, BaitInv
  <2>2. \A q \in Path : ~Holds(files[q], p) /\ ~Holds(out[q], p)
    BY <2>1, <1>k DEF Kept, Clean, BaitInv, Shown
  <2>3. \A l \in Path \ {p} : Noted(l, seen, planted) => Noted(l, seen', planted')
    BY <2>1 DEF Noted
  <2>4. ASSUME NEW q \in Path PROVE files'[q] \in Seq(Line) \union {None} /\ Clean(files'[q], q, seen', planted')
    <3>1. CASE q = p
      <4>1. files'[q] = Original(p)
        BY <3>1, <2>1, <1>k
      <4> QED
        BY <4>1, <3>1, <2>1, TwoLines DEF Clean
    <3>2. CASE q # p
      <4>1. files'[q] = files[q] /\ Clean(files[q], q, seen, planted) /\ files[q] \in Seq(Line) \union {None}
        BY <3>2, <2>1, <1>k DEF Kept
      <4> QED
        BY <4>1, <2>1, <2>2, <2>3 DEF Clean
    <3> QED
      BY <3>1, <3>2
  <2>5. files' \in [Path -> Seq(Line) \union {None}] /\ DOMAIN seen' = SeenFields
    BY <2>1, <2>4, <1>k
  <2>6. Kept(files', seen', planted')
    BY <2>4, <2>5 DEF Kept
  <2>7. Shown'
    BY <2>1, <2>2, <2>3 DEF BaitInv, Shown, Noted, Holds
  <2>8. Kept(saved'.files, saved'.seen, saved'.planted) /\ saved'.planted \subseteq DecoyFile
    BY <2>1 DEF BaitInv
  <2> QED
    BY <2>1, <2>6, <2>7, <2>8 DEF BaitInv
<1>r. ASSUME out' = Silent PROVE Shown'
  BY <1>r, EmptyBodies DEF Shown, Silent
<1>14. CASE Reconnect
  <2>1. /\ files' = files /\ seen' = seen /\ planted' = planted
        /\ saved'.files = files /\ saved'.planted = planted /\ saved'.seen = seen
        /\ dynamic' = LogFile /\ honey' = Honeytoken /\ out' = Silent
    BY <1>14 DEF Reconnect, Restore, ToDict
  <2> QED
    BY <2>1, <1>r, <1>k DEF BaitInv
<1>15. CASE Crash
  <2>1. /\ files' = saved.files /\ seen' = saved.seen /\ planted' = saved.planted /\ saved' = saved
        /\ dynamic' = LogFile /\ honey' = Honeytoken /\ out' = Silent
    BY <1>15 DEF Crash, Restore
  <2> QED
    BY <2>1, <1>r DEF BaitInv
<1>16. CASE UNCHANGED vars
  BY <1>16 DEF vars, vfsVars, BaitInv, Shown
<1>19. ASSUME NEW S \in SUBSET Path, NEW shown, ModelAnswers(S, shown) PROVE BaitInv'
  <2>1. /\ DOMAIN out' = Path /\ source' = "llm"
        /\ \A q \in Path : out'[q] = IF q \in S THEN Matching(files[q], shown) ELSE None
        /\ S \intersect Unprompted = {}
        /\ UNCHANGED <<files, dynamic, honey, seen, planted, saved>>
    BY <1>19 DEF ModelAnswers, vfsVars
  <2>2. ASSUME NEW q \in Path, NEW l \in Path, Holds(out'[q], l)
        PROVE  (l \in Unprompted => Noted(l, seen, planted)) /\ (l \in DecoyFile => l \in planted)
    <3>1. q \in S /\ out'[q] = Matching(files[q], shown)
      BY <2>1, <2>2, EmptyBodies
    <3>2. Holds(files[q], l)
      BY <3>1, <2>2, MatchingHolds
    <3>3. (l = q \/ Noted(l, seen, planted)) /\ (l \in DecoyFile => l \in planted)
      BY <3>2, <1>k DEF Kept, Clean
    <3> QED
      BY <3>1, <3>3, <2>1
  <2>3. Shown'
    BY <2>1, <2>2 DEF Shown, Noted
  <2> QED
    BY <2>1, <2>3 DEF BaitInv
<1>17. CASE \E p \in Path, pattern \in Patterns : Grep(p, FALSE, pattern)
  BY <1>12, <1>17
<1>18. CASE \E d \in Dir, pattern \in Patterns : Grep(d, TRUE, pattern)
  BY <1>12, <1>18, VfsAssumption
<1> QED
  BY <1>1, <1>2, <1>3, <1>4, <1>5, <1>6, <1>7, <1>8, <1>10, <1>11, <1>13, <1>14, <1>15,
     <1>16, <1>17, <1>18, <1>19, Zenon DEF Next

\* A credential or decoy whose text reached another file, or the screen
\* through a handler, has been noted as read, and an Unprompted one on any way
\* to the screen, whatever commands, answers of the language model, removals,
\* reconnects and crashes lie between (observe_vfs_event, VirtualFS.read, _apply_write_ops,
\* plant_decoy and the restore of the state file).
THEOREM BaitTakenAlwaysObserved == Spec => []BaitTakenIsObserved
<1>1. ASSUME BaitInv PROVE BaitTakenIsObserved
  <2>1. ASSUME NEW p \in Path, Leaked(p) PROVE Noted(p, seen, planted)
    <3>1. \/ (source = "builtin" \/ p \in Unprompted) /\ \E q \in Path : Holds(out[q], p)
          \/ \E q \in Path : q # p /\ Holds(files[q], p)
      BY <2>1 DEF Leaked
    <3> QED
      BY <3>1, <1>1 DEF BaitInv, Shown, Kept, Clean
  <2>2. Credential \subseteq Path /\ planted \subseteq Path
    BY <1>1, VfsAssumption, ContentAssumption DEF BaitInv
  <2> QED
    BY <2>1, <2>2 DEF BaitTakenIsObserved, Noted
<1> QED
  BY <1>1, BaitInit, BaitNext, PTL DEF Spec

-----------------------------------------------------------------------------
(* The disk                                                                *)
(*                                                                         *)
(* The argument: a path without tampering that has a renderer, or is a     *)
(* planted decoy, holds nothing or one of its renderings, so what a read   *)
(* of it brings back is what ShellFS lets a live path show; only a path    *)
(* without tampering is rendered; and a deleted path holds nothing.        *)

Disk    == DiskOf(files, deleted, tampered, planted)
KeptDisk == DiskOf(saved.files, saved.deleted, saved.tampered, saved.planted)

IsDisk(f, del, tam, pl) ==
    /\ f \in [Path -> Body \union {None}]
    /\ \A q \in Path : q \in del => f[q] = None
    /\ \A q \in Path : q \in (LogFile \union pl) \ tam => f[q] \in Renderings(q) \union {None}

DiskInv ==
    /\ IsDisk(files, deleted, tampered, planted)
    /\ IsDisk(saved.files, saved.deleted, saved.tampered, saved.planted)
    /\ dynamic \subseteq LogFile \union planted

LEMMA BodyShape ==
    ASSUME NEW b \in Body
    PROVE  /\ b \in Seq(Line) /\ Len(b) \in 0..MaxLen /\ DOMAIN b = 1..Len(b)
           /\ b # None /\ b # Live
<1>1. PICK n \in 0..MaxLen : b \in [1..n -> Line]
  BY DEF Body
<1>2. n \in Nat
  BY ContentAssumption
<1>3. b \in Seq(Line) /\ Len(b) = n
  BY <1>1, <1>2
<1>4. b # None /\ b # Live
  BY ContentAssumption, VfsAssumption DEF Body, Line
<1> QED
  BY <1>1, <1>3, <1>4

LEMMA BodyIsShortSeq ==
    ASSUME NEW b \in Seq(Line), Len(b) <= MaxLen PROVE b \in Body
<1>1. Len(b) \in 0..MaxLen
  BY ContentAssumption
<1>2. b \in [1..Len(b) -> Line]
  OBVIOUS
<1> QED
  BY <1>1, <1>2 DEF Body

LEMMA ShortBodies ==
    /\ <<>> \in Body /\ \A t \in Text : <<t>> \in Body
    /\ \A p \in Path : Original(p) \in Body /\ Renderings(p) \subseteq Body
<1>1. MaxLen \in Nat /\ MaxLen >= 2
  BY ContentAssumption
<1>2. <<>> \in [1..0 -> Line]
  OBVIOUS
<1>3. <<>> \in Body
  BY <1>1, <1>2 DEF Body
<1>4. ASSUME NEW l \in Line PROVE <<l>> \in Body /\ Append(<<l>>, Fresh) \in Body
  <2>1. <<l>> \in Seq(Line) /\ Len(<<l>>) = 1
    OBVIOUS
  <2>2. PICK one : one = <<l>> /\ one \in Seq(Line) /\ Len(one) = 1
    BY <2>1
  <2>3. Append(one, Fresh) \in Seq(Line) /\ Len(Append(one, Fresh)) = 2
    BY <2>2 DEF Line
  <2>4. PICK two : two = Append(one, Fresh) /\ two \in Seq(Line) /\ Len(two) = 2
    BY <2>3, Zenon
  <2>5. Len(one) <= MaxLen /\ Len(two) <= MaxLen
    BY <1>1, <2>2, <2>4
  <2> QED
    BY <2>2, <2>4, <2>5, BodyIsShortSeq, Zenon
<1> QED
  BY <1>3, <1>4 DEF Original, Renderings, Line

LEMMA AppendedIsShort ==
    ASSUME NEW b \in Body, Len(b) < MaxLen, NEW t \in Text PROVE Append(b, t) \in Body
<1>1. b \in Seq(Line) /\ Len(b) \in Nat /\ MaxLen \in Nat
  BY BodyShape, ContentAssumption
<1>2. t \in Line
  BY DEF Line
<1>3. Append(b, t) \in Seq(Line) /\ Len(Append(b, t)) = Len(b) + 1
  BY <1>1, <1>2
<1>4. PICK c : c = Append(b, t) /\ c \in Seq(Line) /\ Len(c) = Len(b) + 1
  BY <1>3, Zenon
<1>5. Len(c) <= MaxLen
  BY <1>1, <1>4
<1> QED
  BY <1>4, <1>5, BodyIsShortSeq, Zenon

\* A search prints what ShellFS lets a command print of the body.
LEMMA PrintedOf ==
    ASSUME NEW b \in Body, NEW pattern
    PROVE  /\ Matching(b, pattern) \in Printed \union {None}
           /\ \E shown \in SUBSET Range(b) : Matching(b, pattern) = Matching(b, shown)
<1>1. b # None /\ b \in Seq(Line) /\ Len(b) \in 0..MaxLen /\ DOMAIN b = 1..Len(b)
  BY BodyShape
<1>2. Matching(b, pattern) \in Printed \union {None}
  <2>1. PICK S : S = {i \in DOMAIN b : b[i] \in pattern}
    OBVIOUS
  <2>2. S \in SUBSET (1..MaxLen) /\ S \subseteq DOMAIN b
    BY <2>1, <1>1, ContentAssumption
  <2>3. Restrict(b, S) \in [S -> Line]
    BY <2>2, <1>1 DEF Restrict
  <2>4. Restrict(b, S) \in Printed
    BY <2>2, <2>3 DEF Printed
  <2> QED
    BY <2>1, <2>4 DEF Matching
<1>3. PICK shown : shown = pattern \intersect Range(b)
  OBVIOUS
<1>4. \A i \in DOMAIN b : b[i] \in pattern <=> b[i] \in shown
  BY <1>3 DEF Range
<1>5. {i \in DOMAIN b : b[i] \in pattern} = {i \in DOMAIN b : b[i] \in shown}
  BY <1>4
<1>6. Matching(b, pattern) = Matching(b, shown)
  BY <1>4, <1>5 DEF Matching
<1> QED
  BY <1>2, <1>3, <1>6

\* What ShellFS lets a reader of p be given.
OnDisk(p) == IF Disk[p] = Live THEN Renderings(p) \union {None} ELSE {Disk[p]}

\* The steps of ShellFS, in the terms of this module.
Rests == KeptDisk' = KeptDisk
LEMMA MappedPut ==
    ASSUME NEW p \in Path, NEW body \in {<<>>} \union {<<t>> : t \in Text},
           Disk' = [Disk EXCEPT ![p] = body], out' = Silent, Rests
    PROVE  Abstract!Next
<1>1. Abstract!Put(p, body)
  BY DEF Abstract!Put, Abstract!Silent, Silent, Disk, KeptDisk, Rests
<1> QED
  BY <1>1 DEF Abstract!Next
LEMMA MappedAppend ==
    ASSUME NEW p \in Path, NEW t \in Text,
           NEW b \in (IF Disk[p] \in {Live, None} THEN {<<>>} ELSE {}) \union (OnDisk(p) \ {None}),
           Disk' = [Disk EXCEPT ![p] = Append(b, t)], out' = Silent, Rests
    PROVE  Abstract!Next
<1>1. Abstract!AppendTo(p, t)
  BY Zenon DEF Abstract!AppendTo, Abstract!Bodies, Abstract!Renderings, Abstract!Original, Abstract!Silent, Silent, Disk,
         KeptDisk, Rests, OnDisk, Renderings, Original
<1> QED
  BY <1>1 DEF Abstract!Next
LEMMA MappedCreate ==
    ASSUME NEW p \in Path,
           NEW b \in (IF Disk[p] \in {Live, None} THEN {<<>>} ELSE {}) \union (OnDisk(p) \ {None}),
           Disk' = [Disk EXCEPT ![p] = b], out' = Silent, Rests
    PROVE  Abstract!Next
<1>1. Abstract!Create(p)
  BY Zenon DEF Abstract!Create, Abstract!Bodies, Abstract!Renderings, Abstract!Original, Abstract!Silent, Silent, Disk,
         KeptDisk, Rests, OnDisk, Renderings, Original
<1> QED
  BY <1>1 DEF Abstract!Next
LEMMA MappedRemove ==
    ASSUME NEW p \in Path, Disk' = [Disk EXCEPT ![p] = None], out' = Silent, Rests
    PROVE  Abstract!Next
<1>1. Abstract!Remove(p)
  BY DEF Abstract!Remove, Abstract!Silent, Silent, Disk, KeptDisk, Rests
<1> QED
  BY <1>1 DEF Abstract!Next
LEMMA MappedCopy ==
    ASSUME NEW s \in Path, NEW d \in Path, NEW b \in OnDisk(s) \ {None},
           Disk' = [Disk EXCEPT ![d] = b], out' = Silent, Rests
    PROVE  Abstract!Next
<1>1. Abstract!Copy(s, d)
  BY Zenon DEF Abstract!Copy, Abstract!Bodies, Abstract!Renderings, Abstract!Original, Abstract!Silent, Silent, Disk,
         KeptDisk, Rests, OnDisk, Renderings, Original
<1> QED
  BY <1>1 DEF Abstract!Next
LEMMA MappedMove ==
    ASSUME NEW s \in Path, NEW d \in Path, NEW b \in OnDisk(s) \ {None},
           Disk' = [Disk EXCEPT ![d] = b, ![s] = None], out' = Silent, Rests
    PROVE  Abstract!Next
<1>1. Abstract!Move(s, d)
  BY Zenon DEF Abstract!Move, Abstract!Bodies, Abstract!Renderings, Abstract!Original, Abstract!Silent, Silent, Disk,
         KeptDisk, Rests, OnDisk, Renderings, Original
<1> QED
  BY <1>1 DEF Abstract!Next
LEMMA MappedPlant ==
    ASSUME NEW p \in DecoyFile, NEW b \in {Live, Original(p)},
           Disk' = [Disk EXCEPT ![p] = b], out' = out, Rests
    PROVE  Abstract!Next
<1>1. p \in Path
  BY ContentAssumption
<1>2. Abstract!Plant(p)
  BY DEF Abstract!Plant, Abstract!Original, Original, Disk, KeptDisk, Rests
<1> QED
  BY <1>1, <1>2 DEF Abstract!Next
LEMMA MappedLook ==
    ASSUME Disk' = Disk, Rests, out' \in [Path -> Printed \union {None}],
           \A p \in Path : out'[p] # None => \E b \in OnDisk(p) \ {None} :
                              \E shown \in SUBSET Range(b) : out'[p] = Matching(b, shown)
    PROVE  Abstract!Next
<1>1. Abstract!Look
  BY Zenon DEF Abstract!Look, Abstract!Bodies, Abstract!Renderings, Abstract!Original, Abstract!Printed, Abstract!Matching, Abstract!Line, Disk,
         KeptDisk, Rests, OnDisk, Renderings, Original, Printed, Matching, Line, Abstract!Restrict, Restrict, Abstract!Range, Range
<1> QED
  BY <1>1 DEF Abstract!Next
LEMMA MappedReconnect ==
    ASSUME out' = Silent, Disk' = Disk, KeptDisk' = Disk PROVE Abstract!Next
<1>1. Abstract!Reconnect
  BY DEF Abstract!Reconnect, Abstract!Silent, Silent, Disk, KeptDisk
<1> QED
  BY <1>1 DEF Abstract!Next
LEMMA MappedRollback ==
    ASSUME out' = Silent, Disk' = KeptDisk, Rests PROVE Abstract!Next
<1>1. Abstract!Rollback
  BY DEF Abstract!Rollback, Abstract!Silent, Silent, Disk, KeptDisk, Rests
<1> QED
  BY <1>1 DEF Abstract!Next

With(f, p, b) == [f EXCEPT ![p] = b]

\* A noted or unnoted write of p is a write on the disk, ...
LEMMA DiskWrite ==
    ASSUME NEW f, NEW del, NEW tam, NEW pl, IsDisk(f, del, tam, pl), NEW p \in Path, NEW b \in Body
    PROVE  /\ IsDisk(With(f, p, b), del \ {p}, tam \union {p}, pl)
           /\ DiskOf(With(f, p, b), del \ {p}, tam \union {p}, pl) = With(DiskOf(f, del, tam, pl), p, b)
BY DEF IsDisk, DiskOf, With

\* ... a removal one from it, ...
LEMMA DiskRemove ==
    ASSUME NEW f, NEW del, NEW tam, NEW pl, IsDisk(f, del, tam, pl), NEW p \in Path
    PROVE  /\ IsDisk(With(f, p, None), del \union {p}, tam \union {p}, pl)
           /\ DiskOf(With(f, p, None), del \union {p}, tam \union {p}, pl) = With(DiskOf(f, del, tam, pl), p, None)
BY DEF IsDisk, DiskOf, With

\* ... and a read brings back what the disk shows, and changes nothing on it.
LEMMA DiskRead ==
    ASSUME DiskInv, NEW p \in Path, p \notin deleted, NEW body, ReadOf(p, body), body # None
    PROVE  body \in Body /\ body \in OnDisk(p) \ {None}
<1>1. files[p] \in Body \union {None}
  BY DEF DiskInv, IsDisk
<1>2. body \in Body
  BY <1>1, ShortBodies DEF ReadOf
<1>3. CASE p \in (LogFile \union planted) \ tampered
  <2>1. Disk[p] = Live
    BY <1>3 DEF Disk, DiskOf
  <2>2. body \in Renderings(p) \union {None}
    BY <1>3 DEF DiskInv, IsDisk, ReadOf
  <2> QED
    BY <1>2, <2>1, <2>2 DEF OnDisk
<1>4. CASE p \notin (LogFile \union planted) \ tampered
  <2>1. ~Rendered(p)
    BY <1>4 DEF Rendered, DiskInv
  <2>2. body = files[p] /\ Disk[p] = files[p]
    BY <2>1, <1>4 DEF ReadOf, Disk, DiskOf
  <2>3. files[p] # Live
    BY <1>2, <2>2, BodyShape
  <2> QED
    BY <1>2, <2>2, <2>3 DEF OnDisk
<1> QED
  BY <1>3, <1>4

\* Reads of a set of paths.
LEMMA DiskAfterReads ==
    ASSUME DiskInv, NEW g, g = [q \in Path |-> g[q]],
           \A q \in Path : g[q] = files[q] \/ (q \notin deleted /\ ReadOf(q, g[q]) /\ g[q] # None)
    PROVE  IsDisk(g, deleted, tampered, planted) /\ DiskOf(g, deleted, tampered, planted) = Disk
<1>1. ASSUME NEW q \in Path
      PROVE  /\ g[q] \in Body \union {None} /\ (q \in deleted => g[q] = None)
             /\ q \in (LogFile \union planted) \ tampered => g[q] \in Renderings(q) \union {None}
             /\ q \notin (LogFile \union planted) \ tampered => g[q] = files[q]
  <2>1. CASE g[q] = files[q]
    BY <2>1 DEF DiskInv, IsDisk
  <2>2. CASE q \notin deleted /\ ReadOf(q, g[q]) /\ g[q] # None
    <3>1. g[q] \in Body
      BY <2>2, DiskRead
    <3>2. q \in (LogFile \union planted) \ tampered => g[q] \in Renderings(q) \union {None}
      BY <2>2 DEF DiskInv, IsDisk, ReadOf
    <3>3. q \notin (LogFile \union planted) \ tampered => g[q] = files[q]
      BY <2>2 DEF ReadOf, Rendered, DiskInv
    <3> QED
      BY <3>1, <3>2, <3>3, <2>2
  <2> QED
    BY <1>1, <2>1, <2>2
<1>2. g \in [Path -> Body \union {None}]
  BY <1>1
<1>3. IsDisk(g, deleted, tampered, planted)
  BY <1>1, <1>2 DEF IsDisk
<1>4. ASSUME NEW q \in Path PROVE DiskOf(g, deleted, tampered, planted)[q] = Disk[q]
  BY <1>1 DEF DiskOf, Disk
<1>5. DiskOf(g, deleted, tampered, planted) = Disk
  BY <1>4 DEF DiskOf, Disk
<1> QED
  BY <1>3, <1>5

\* Memory is what a command disturbs.
LEMMA DiskStep ==
    ASSUME DiskInv, IsDisk(files', deleted', tampered', planted'), saved' = saved,
           dynamic' = dynamic, planted' = planted
    PROVE  DiskInv' /\ Rests
BY DEF DiskInv, Rests, KeptDisk, IsDisk, DiskOf

LEMMA DiskInit == Init => DiskInv /\ Abstract!Init
<1> SUFFICES ASSUME Init PROVE DiskInv /\ Abstract!Init
  OBVIOUS
<1>1. /\ files = SeedFiles /\ deleted = {} /\ tampered = {} /\ planted = {} /\ dynamic = LogFile /\ out = Silent
      /\ saved.files = files /\ saved.deleted = deleted /\ saved.tampered = tampered /\ saved.planted = planted
  BY DEF Init, ToDict
<1>2. ASSUME NEW q \in Path
      PROVE  SeedFiles[q] \in Body \union {None} /\ (q \in LogFile => SeedFiles[q] = None)
  BY ShortBodies, VfsAssumption DEF SeedFiles
<1>3. SeedFiles \in [Path -> Body \union {None}]
  BY <1>2 DEF SeedFiles
<1>4. IsDisk(files, deleted, tampered, planted)
  BY <1>1, <1>2, <1>3 DEF IsDisk
<1>5. DiskInv
  BY <1>1, <1>4 DEF DiskInv
<1>6. \A p \in LogFile : Disk[p] = Live
  BY <1>1, ContentAssumption DEF Disk, DiskOf
<1>7. KeptDisk = Disk
  BY <1>1 DEF Disk, KeptDisk
<1>8. Abstract!Init
  BY <1>1, <1>6, <1>7 DEF Abstract!Init, Abstract!Silent, Silent, Disk, KeptDisk
<1> QED
  BY <1>5, <1>8

\* Every step keeps the invariant and is a step of ShellFS, or none.
LEMMA DiskNext == DiskInv /\ [Next]_vars => DiskInv' /\ (Abstract!Next \/ UNCHANGED <<Disk, KeptDisk, out>>)
<1> DEFINE Maps == DiskInv' /\ (Abstract!Next \/ UNCHANGED <<Disk, KeptDisk, out>>)
<1> SUFFICES ASSUME DiskInv, [Next]_vars PROVE Maps
  OBVIOUS
<1> USE DEF NothingPrinted
<1>i. IsDisk(files, deleted, tampered, planted) /\ DOMAIN files = Path /\ files = [q \in Path |-> files[q]]
  BY DEF DiskInv, IsDisk
<1>k. \A d \in Dir : KeepOf[d] \in Path
  BY VfsAssumption
<1>s. <<>> \in Body
  BY ShortBodies
<1>n. Disk' = DiskOf(files', deleted', tampered', planted') /\ Disk = DiskOf(files, deleted, tampered, planted)
  BY DEF Disk
<1>1. ASSUME NEW p \in Path, NEW t \in Text, NEW append \in BOOLEAN, Echo(p, t, append)
      PROVE  Maps
  <2>1. PICK body : /\ body = IF append /\ files[p] # None THEN Append(files[p], t) ELSE <<t>>
                    /\ files' = With(files, p, body)
    BY <1>1 DEF Echo, WriteTo, With
  <2>2. /\ deleted' = deleted \ {p} /\ tampered' = tampered \union {p} /\ planted' = planted
        /\ saved' = saved /\ dynamic' = dynamic /\ out' = Silent
    BY <1>1 DEF Echo, WriteTo, Undeleted, Command
  <2>3. files[p] \in Body \union {None}
    BY <1>i DEF IsDisk
  <2>4. body \in Body
    <3>1. CASE append /\ files[p] # None
      <4>1. Len(files[p]) < MaxLen /\ files[p] \in Body
        BY <3>1, <2>3, <1>1 DEF Echo
      <4>2. Append(files[p], t) \in Body
        BY <4>1, AppendedIsShort
      <4> QED
        BY <4>2, <3>1, <2>1, Zenon
    <3>2. CASE ~(append /\ files[p] # None)
      BY <3>2, <2>1, ShortBodies
    <3> QED
      BY <3>1, <3>2
  <2>5. IsDisk(files', deleted', tampered', planted') /\ Disk' = With(Disk, p, body)
    BY <2>1, <2>2, <2>4, <1>i, <1>n, DiskWrite
  <2>6. DiskInv' /\ Rests
    BY <2>2, <2>5, DiskStep
  <2>7. CASE append /\ files[p] # None
    <3>1. p \notin deleted
      BY <2>7, <1>i DEF IsDisk
    <3>2. ReadOf(p, files[p])
      BY DEF ReadOf
    <3>3. files[p] \in OnDisk(p) \ {None}
      BY <3>1, <3>2, <2>7, DiskRead
    <3>4. Disk' = [Disk EXCEPT ![p] = Append(files[p], t)]
      BY <2>1, <2>5, <2>7, Zenon DEF With
    <3>5. PICK b : b = files[p] /\ b \in OnDisk(p) \ {None} /\ Disk' = [Disk EXCEPT ![p] = Append(b, t)]
      BY <3>3, <3>4, Zenon
    <3>6. Abstract!Next
      BY <3>5, <2>2, <2>6, MappedAppend, Zenon
    <3> QED
      BY <3>6, <2>6
  <2>8. CASE ~(append /\ files[p] # None)
    <3>1. body = <<t>>
      BY <2>8, <2>1
    <3>2. body \in {<<>>} \union {<<u>> : u \in Text}
      BY <3>1
    <3> QED
      BY <3>2, <2>5, <2>6, <2>2, MappedPut DEF With
  <2> QED
    BY <2>7, <2>8
<1>w. ASSUME NEW p \in Path, WriteTo(files, baseline, p, <<>>), NothingPrinted, Command PROVE Maps
  <2>1. /\ files' = With(files, p, <<>>) /\ deleted' = deleted \ {p} /\ tampered' = tampered \union {p}
        /\ planted' = planted /\ saved' = saved /\ dynamic' = dynamic /\ out' = Silent
    BY <1>w DEF WriteTo, Undeleted, Command, With
  <2>2. IsDisk(files', deleted', tampered', planted') /\ Disk' = With(Disk, p, <<>>)
    BY <2>1, <1>i, <1>s, <1>n, DiskWrite
  <2>3. DiskInv' /\ Rests
    BY <2>1, <2>2, DiskStep
  <2> QED
    BY <2>1, <2>2, <2>3, MappedPut DEF With
<1>2. ASSUME NEW p \in Path, Truncate(p) PROVE Maps
  BY <1>2, <1>w DEF Truncate
<1>3. ASSUME NEW p \in Path, Touch(p) PROVE Maps
  <2>1. PICK b : b = IF files[p] = None THEN <<>> ELSE files[p]
    OBVIOUS
  <2>2. /\ files' = With(files, p, b) /\ deleted' = deleted \ {p} /\ tampered' = tampered \union {p}
        /\ planted' = planted /\ saved' = saved /\ dynamic' = dynamic /\ out' = Silent
    BY <1>3, <2>1, <1>i DEF Touch, SetDefault, Undeleted, Command, With
  <2>3. b \in Body
    BY <2>1, <1>i, <1>s DEF IsDisk
  <2>4. IsDisk(files', deleted', tampered', planted') /\ Disk' = With(Disk, p, b)
    BY <2>2, <2>3, <1>i, <1>n, DiskWrite
  <2>5. DiskInv' /\ Rests
    BY <2>2, <2>4, DiskStep
  <2>6. b \in (IF Disk[p] \in {Live, None} THEN {<<>>} ELSE {}) \union (OnDisk(p) \ {None})
    <3>1. CASE files[p] = None
      BY <3>1, <2>1 DEF Disk, DiskOf
    <3>2. CASE files[p] # None
      <4>1. p \notin deleted /\ ReadOf(p, files[p])
        BY <3>2, <1>i DEF IsDisk, ReadOf
      <4> QED
        BY <4>1, <3>2, <2>1, DiskRead
    <3> QED
      BY <3>1, <3>2
  <2> QED
    BY <2>2, <2>4, <2>5, <2>6, MappedCreate DEF With
<1>u. ASSUME NEW p \in Path, Unlink(p), NothingPrinted, Command PROVE Maps
  <2>1. /\ files' = With(files, p, None) /\ deleted' = deleted \union {p} /\ tampered' = tampered \union {p}
        /\ planted' = planted /\ saved' = saved /\ dynamic' = dynamic /\ out' = Silent
    BY <1>u DEF Unlink, Command, With
  <2>2. IsDisk(files', deleted', tampered', planted') /\ Disk' = With(Disk, p, None)
    BY <2>1, <1>i, <1>n, DiskRemove
  <2>3. DiskInv' /\ Rests
    BY <2>1, <2>2, DiskStep
  <2> QED
    BY <2>1, <2>2, <2>3, MappedRemove DEF With
<1>4. ASSUME NEW p \in Path, Rm(p) PROVE Maps
  BY <1>4, <1>u DEF Rm
<1>r. ASSUME NEW s \in Path, NEW body \in ReadBodies(s) \ {None}
      PROVE  /\ body \in Body /\ body \in OnDisk(s) \ {None} /\ s \notin deleted
             /\ IsDisk(FilesAfterRead(s, body), deleted, tampered, planted)
             /\ DiskOf(FilesAfterRead(s, body), deleted, tampered, planted) = Disk
  <2>1. s \notin deleted /\ ReadOf(s, body) /\ body # None
    BY <1>r, ReadBodiesAreReads DEF ReadBodies
  <2>2. PICK g : g = FilesAfterRead(s, body)
    OBVIOUS
  <2>3. g = [q \in Path |-> g[q]] /\ g[s] = body /\ \A q \in Path \ {s} : g[q] = files[q]
    BY <2>2, <1>i DEF FilesAfterRead
  <2>4. \A q \in Path : g[q] = files[q] \/ (q \notin deleted /\ ReadOf(q, g[q]) /\ g[q] # None)
    BY <2>1, <2>3
  <2>5. IsDisk(g, deleted, tampered, planted) /\ DiskOf(g, deleted, tampered, planted) = Disk
    BY <2>3, <2>4, DiskAfterReads
  <2> QED
    BY <2>1, <2>2, <2>5, DiskRead
<1>5. ASSUME NEW s \in Path, NEW d \in Path, Cp(s, d) PROVE Maps
  <2>1. PICK body \in ReadBodies(s) \ {None} :
            WriteTo(FilesAfterRead(s, body), BaselineAfterRead(s, body), d, body)
    BY <1>5 DEF Cp
  <2>2. /\ files' = With(FilesAfterRead(s, body), d, body)
        /\ deleted' = deleted \ {d} /\ tampered' = tampered \union {d}
        /\ planted' = planted /\ saved' = saved /\ dynamic' = dynamic /\ out' = Silent
    BY <2>1, <1>5 DEF Cp, WriteTo, Undeleted, Command, With
  <2>3. IsDisk(files', deleted', tampered', planted') /\ Disk' = With(Disk, d, body)
    BY <2>2, <1>r, <1>n, DiskWrite
  <2>4. DiskInv' /\ Rests
    BY <2>2, <2>3, DiskStep
  <2> QED
    BY <2>2, <2>3, <2>4, <1>r, MappedCopy DEF With
<1>6. ASSUME NEW s \in Path, NEW d \in Path, Mv(s, d) PROVE Maps
  <2>1. PICK body \in ReadBodies(s) \ {None} :
            files' = With(With(FilesAfterRead(s, body), d, body), s, None)
    BY <1>6 DEF Mv, With
  <2>2. /\ deleted' = (deleted \ {d}) \union {s} /\ tampered' = (tampered \union {d}) \union {s}
        /\ planted' = planted /\ saved' = saved /\ dynamic' = dynamic /\ out' = Silent
    BY <1>6 DEF Mv, Undeleted, Command
  <2>3. /\ IsDisk(With(FilesAfterRead(s, body), d, body), deleted \ {d}, tampered \union {d}, planted)
        /\ DiskOf(With(FilesAfterRead(s, body), d, body), deleted \ {d}, tampered \union {d}, planted)
              = With(Disk, d, body)
    BY <1>r, DiskWrite
  <2>4. IsDisk(files', deleted', tampered', planted') /\ Disk' = With(With(Disk, d, body), s, None)
    BY <2>1, <2>2, <2>3, <1>n, DiskRemove
  <2>5. Disk' = [Disk EXCEPT ![d] = body, ![s] = None]
    BY <2>4 DEF With
  <2>6. DiskInv' /\ Rests
    BY <2>2, <2>4, DiskStep
  <2> QED
    BY <2>2, <2>5, <2>6, <1>r, MappedMove
<1>7. ASSUME NEW d \in Dir, NEW pflag \in BOOLEAN, Mkdir(d, pflag) PROVE Maps
  BY <1>7, <1>w, <1>k DEF Mkdir
<1>8. ASSUME NEW d \in Dir, Rmdir(d) PROVE Maps
  BY <1>8, <1>u, <1>k DEF Rmdir
<1>l. ASSUME NEW S \in SUBSET Path, NEW g, NEW pattern, g = [q \in Path |-> g[q]],
             \A q \in S : q \notin deleted /\ ReadOf(q, g[q]) /\ g[q] # None,
             \A q \in Path \ S : g[q] = files[q],
             files' = g, UNCHANGED <<deleted, tampered, dynamic, planted, saved>>,
             out' = [q \in Path |-> IF q \in S THEN Matching(g[q], pattern) ELSE None]
      PROVE  Maps
  <2>1. IsDisk(files', deleted', tampered', planted') /\ Disk' = Disk
    <3>1. IsDisk(g, deleted, tampered, planted) /\ DiskOf(g, deleted, tampered, planted) = Disk
      BY <1>l, DiskAfterReads
    <3> QED
      BY <3>1, <1>l DEF Disk
  <2>2. DiskInv' /\ Rests
    BY <1>l, <2>1, DiskStep
  <2>3. ASSUME NEW q \in S
        PROVE  g[q] \in OnDisk(q) \ {None} /\ g[q] \in Body
    BY <1>l, DiskRead
  <2>4. ASSUME NEW q \in S
        PROVE  /\ Matching(g[q], pattern) \in Printed \union {None}
               /\ \E shown \in SUBSET Range(g[q]) : Matching(g[q], pattern) = Matching(g[q], shown)
    BY <2>3, PrintedOf
  <2>5. out' \in [Path -> Printed \union {None}]
    BY <1>l, <2>4
  <2>6. ASSUME NEW q \in Path, out'[q] # None
        PROVE  \E b \in OnDisk(q) \ {None} : \E shown \in SUBSET Range(b) : out'[q] = Matching(b, shown)
    <3>1. q \in S /\ out'[q] = Matching(g[q], pattern)
      BY <2>6, <1>l
    <3> QED
      BY <3>1, <2>3, <2>4
  <2> QED
    BY <2>1, <2>2, <2>5, <2>6, MappedLook
<1>9. ASSUME NEW p \in Path, NEW shown, Reading(p, shown) PROVE Maps
  <2>1. PICK body \in ReadBodies(p) \ {None} :
            /\ files' = FilesAfterRead(p, body)
            /\ out' = [Silent EXCEPT ![p] = Matching(body, shown)]
    BY <1>9 DEF Reading
  <2>2. UNCHANGED <<deleted, tampered, dynamic, planted, saved>>
    BY <1>9 DEF Reading, Command
  <2>3. p \notin deleted /\ ReadOf(p, body) /\ body # None
    BY <2>1, ReadBodiesAreReads DEF ReadBodies
  <2>4. PICK g : g = FilesAfterRead(p, body)
    OBVIOUS
  <2>5. g = [q \in Path |-> g[q]] /\ g[p] = body /\ \A q \in Path \ {p} : g[q] = files[q]
    BY <2>4, <1>i DEF FilesAfterRead
  <2>6. out' = [q \in Path |-> IF q \in {p} THEN Matching(g[q], shown) ELSE None]
    BY <2>1, <2>5 DEF Silent
  <2>7. {p} \in SUBSET Path /\ \A q \in {p} : q \notin deleted /\ ReadOf(q, g[q]) /\ g[q] # None
    BY <2>3, <2>5
  <2>8. PICK S : S = {p}
    OBVIOUS
  <2>9. /\ S \in SUBSET Path /\ \A q \in S : q \notin deleted /\ ReadOf(q, g[q]) /\ g[q] # None
        /\ \A q \in Path \ S : g[q] = files[q]
        /\ out' = [q \in Path |-> IF q \in S THEN Matching(g[q], shown) ELSE None]
    BY <2>5, <2>6, <2>7, <2>8
  <2>10. files' = g /\ g = [q \in Path |-> g[q]]
    BY <2>1, <2>4, <2>5
  <2> QED
    BY <2>2, <2>9, <2>10, <1>l
<1>10. ASSUME NEW p \in Path, Cat(p) PROVE Maps
  BY <1>9, <1>10 DEF Cat
<1>11. ASSUME NEW p \in Path, NEW shown, TextProc(p, shown) PROVE Maps
  BY <1>9, <1>11 DEF TextProc
<1>12. ASSUME NEW p \in Path, NEW recursive \in BOOLEAN, recursive => p \in Dir, NEW pattern,
              Grep(p, recursive, pattern)
       PROVE  Maps
  <2>s. PICK S : S = GrepFiles(p, recursive)
    OBVIOUS
  <2>h. PICK how \in RenderChoice(GrepFiles(p, recursive)) :
            LET W == GrepFiles(p, recursive)
            IN /\ out' = [q \in Path |-> IF q \in W THEN Matching(BodyUnder(q, how), pattern) ELSE None]
               /\ files' = [q \in Path |-> IF q \in W THEN BodyUnder(q, how) ELSE files[q]]
    BY <1>12, Zenon DEF Grep
  <2>1. UNCHANGED <<deleted, tampered, dynamic, planted, saved>>
    BY <1>12 DEF Grep, Command
  <2>2. S \in SUBSET Path /\ \A q \in S : Exists(q)
    BY <1>12, <2>s, VfsAssumption DEF Grep, GrepFiles
  <2>3. ASSUME NEW q \in Path PROVE ReadOf(q, BodyUnder(q, how))
    BY <2>h DEF ReadOf, BodyUnder, RenderChoice, Renderings
  <2>4. PICK g : g = [q \in Path |-> IF q \in S THEN BodyUnder(q, how) ELSE files[q]]
    OBVIOUS
  <2>5. g = [q \in Path |-> g[q]] /\ files' = g /\ \A q \in Path \ S : g[q] = files[q]
    BY <2>4, <2>h, <2>s
  <2>6. out' = [q \in Path |-> IF q \in S THEN Matching(g[q], pattern) ELSE None]
    BY <2>4, <2>h, <2>s
  <2>7. ASSUME NEW q \in S PROVE q \notin deleted /\ ReadOf(q, g[q]) /\ g[q] # None
    <3>1. q \in Path /\ q \notin deleted /\ files[q] # None /\ g[q] = BodyUnder(q, how)
      BY <2>2, <2>4 DEF Exists
    <3>2. ReadOf(q, g[q])
      BY <3>1, <2>3
    <3>3. g[q] # None
      BY <3>1, <3>2, ShortBodies, BodyShape DEF ReadOf
    <3> QED
      BY <3>1, <3>2, <3>3
  <2> QED
    BY <2>1, <2>2, <2>5, <2>6, <2>7, <1>l
<1>13. ASSUME NEW p \in DecoyFile, PlantDecoy(p) PROVE Maps
  <2>1. /\ p \in Path /\ files' = [files EXCEPT ![p] = Original(p)] /\ deleted' = deleted \ {p}
        /\ tampered' = tampered /\ planted' = planted \union {p} /\ dynamic' = dynamic \union {p}
        /\ saved' = saved /\ out' = out
    BY <1>13, ContentAssumption DEF PlantDecoy, Undeleted
  <2>2. Original(p) \in Body /\ Original(p) \in Renderings(p)
    BY <2>1, ShortBodies DEF Renderings
  <2>3. IsDisk(files', deleted', tampered', planted')
    BY <2>1, <2>2, <1>i DEF IsDisk
  <2>4. Rests /\ DiskInv'
    BY <2>1, <2>3 DEF Rests, KeptDisk, DiskInv
  <2>5. PICK b \in {Live, Original(p)} : b = IF p \in tampered THEN Original(p) ELSE Live
    OBVIOUS
  <2>6. Disk' = [Disk EXCEPT ![p] = b]
    <3>1. /\ DOMAIN Disk' = Path /\ DOMAIN Disk = Path
          /\ Disk' = [q \in Path |-> Disk'[q]] /\ Disk = [q \in Path |-> Disk[q]]
      BY DEF Disk, DiskOf
    <3>2. ASSUME NEW q \in Path \ {p} PROVE Disk'[q] = Disk[q]
      BY <2>1, <1>i DEF Disk, DiskOf
    <3>3. Disk'[p] = b
      BY <2>1, <2>5, <1>i DEF Disk, DiskOf
    <3> QED
      BY <3>1, <3>2, <3>3
  <2> QED
    BY <2>1, <2>4, <2>6, MappedPlant
<1>14. CASE Reconnect
  <2>1. /\ files' = files /\ deleted' = deleted /\ tampered' = tampered /\ planted' = planted
        /\ saved'.files = files /\ saved'.deleted = deleted /\ saved'.tampered = tampered
        /\ saved'.planted = planted /\ dynamic' = LogFile /\ out' = Silent
    BY <1>14 DEF Reconnect, Restore, ToDict
  <2>2. Disk' = Disk /\ KeptDisk' = Disk
    BY <2>1 DEF Disk, KeptDisk
  <2>3. DiskInv'
    BY <2>1, <1>i DEF DiskInv
  <2> QED
    BY <2>1, <2>2, <2>3, MappedReconnect
<1>15. CASE Crash
  <2>1. /\ files' = saved.files /\ deleted' = saved.deleted /\ tampered' = saved.tampered
        /\ planted' = saved.planted /\ saved' = saved /\ dynamic' = LogFile /\ out' = Silent
    BY <1>15 DEF Crash, Restore
  <2>2. Disk' = KeptDisk /\ Rests
    BY <2>1 DEF Disk, KeptDisk, Rests
  <2>3. DiskInv'
    BY <2>1 DEF DiskInv
  <2>4. Abstract!Next
    BY <2>1, <2>2, MappedRollback
  <2> QED
    BY <2>3, <2>4
<1>16. CASE UNCHANGED vars
  BY <1>16 DEF vars, vfsVars, DiskInv, Disk, KeptDisk
<1>19. ASSUME NEW S \in SUBSET Path, NEW shown, ModelAnswers(S, shown) PROVE Maps
  <2>1. /\ UNCHANGED <<files, deleted, tampered, dynamic, planted, saved>>
        /\ out' = [q \in Path |-> IF q \in S THEN Matching(files[q], shown) ELSE None]
        /\ \A q \in S : q \notin deleted /\ files[q] # None
    BY <1>19 DEF ModelAnswers, vfsVars, Exists
  <2>2. \A q \in S : ReadOf(q, files[q])
    BY DEF ReadOf
  <2> QED
    BY <2>1, <2>2, <1>i, <1>l
<1>17. CASE \E p \in Path, pattern \in Patterns : Grep(p, FALSE, pattern)
  BY <1>12, <1>17
<1>18. CASE \E d \in Dir, pattern \in Patterns : Grep(d, TRUE, pattern)
  BY <1>12, <1>18, VfsAssumption
<1> HIDE DEF Maps
<1> QED
  BY <1>1, <1>2, <1>3, <1>4, <1>5, <1>6, <1>7, <1>8, <1>10, <1>11, <1>13, <1>14, <1>15,
     <1>16, <1>17, <1>18, <1>19, Zenon DEF Next

\* The virtual file system implements the disk of ShellFS: what an intruder
\* writes, copies or removes is what every later command of this and of later
\* connections finds (VirtualFS.read/write/unlink, to_dict/restore).
THEOREM AlwaysActsLikeADisk == Spec => ActsLikeADisk
<1>1. Init => Abstract!Init
  BY DiskInit
<1>2. DiskInv /\ [Next]_vars
        => [Abstract!Next]_<<DiskOf(files, deleted, tampered, planted),
                             DiskOf(saved.files, saved.deleted, saved.tampered, saved.planted), out>>
  BY DiskNext DEF Disk, KeptDisk
<1>3. Init => DiskInv
  BY DiskInit
<1>4. DiskInv /\ [Next]_vars => DiskInv'
  BY DiskNext
<1> QED
  BY <1>1, <1>2, <1>3, <1>4, PTL DEF Spec, ActsLikeADisk, Abstract!Spec
=============================================================================
