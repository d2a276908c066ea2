----------------------------- MODULE TurnProofs -----------------------------
(* What a turn is given: the excerpts of files the engine keeps of its tool   *)
(* calls agree with the project's files, for every number of paths, turns,    *)
(* calls and failed appends; the knowledge put in front of it is of the one   *)
(* pack the run was started with, and traced on disk before it is sent, for   *)
(* every set of records, sources, failures and surroundings.                  *)
EXTENDS WorkspaceTools, Knowledge, FiniteSetTheorems, WellFoundedInduction, TLAPS

Contents == Texts \cup {Absent, Binary, Torn}
Types ==
    /\ files \in [Paths -> Contents] /\ folder \in BOOLEAN
    /\ changed \subseteq Paths /\ logged \subseteq Paths /\ untold \subseteq Paths
    /\ IsFiniteSet(evidence) /\ step \in Nat
    /\ \A e \in evidence : e.path \in Paths /\ e.step \in Nat

IInv == Types /\ EvidenceIsCurrent /\ ShownIsBounded /\ ChangedIsLogged

-----------------------------------------------------------------------------
(* What a tool may answer for path p: nothing is changed without success, and *)
(* what is read is not changed.                                               *)
Stati == {"success", "error", "rejected", "exists"}
Answered(r, p) ==
    /\ r.status \in Stati /\ r.changed \in BOOLEAN
    /\ r.now \in Contents
    /\ r.changed => r.status = "success"
    /\ ~r.changed => r.now = files[p]
    /\ r.read > 0 => ~r.changed

LEMMA ResultsAreAnswers ==
  ASSUME Types, NEW p \in Paths, NEW status \in Stati
  PROVE  Answered(Unchanged(status, p), p)
BY DEF Types, Answered, Unchanged, Result

LEMMA ChangesAreAnswers ==
  ASSUME NEW p \in Paths, NEW now \in Contents
  PROVE  Answered(Changing(p, now), p) /\ Changing(p, now).changed
BY DEF Answered, Changing, Result, Stati

LEMMA WritesAreAnswers ==
  ASSUME Types, NEW p \in Paths, NEW t \in Texts
  PROVE  /\ Answered(Write(p, t), p)
         /\ Answered(Create(p, t), p)
<1>1. t \in Contents
  BY DEF Contents
<1>2. \A status \in Stati : Answered(Unchanged(status, p), p)
  BY ResultsAreAnswers
<1>3. Answered(Changing(p, t), p)
  BY <1>1, ChangesAreAnswers
<1>. QED
  BY <1>2, <1>3 DEF Write, Create, Stati

LEMMA DeletesAreAnswers ==
  ASSUME Types, NEW p \in Paths
  PROVE  Answered(Delete(p), p)
<1>1. \A status \in Stati : Answered(Unchanged(status, p), p)
  BY ResultsAreAnswers
<1>2. Answered(Changing(p, Absent), p)
  BY ChangesAreAnswers DEF Contents
<1>. QED
  BY <1>1, <1>2 DEF Delete, Stati

LEMMA ReadsAreAnswers ==
  ASSUME Types, NEW p \in Paths, NEW limit
  PROVE  Answered(Read(p, limit), p)
<1>1. \A status \in Stati : Answered(Unchanged(status, p), p)
  BY ResultsAreAnswers
<1>2. ASSUME NEW n
      PROVE  Answered([Unchanged("success", p) EXCEPT !.read = n], p)
  BY DEF Types, Answered, Unchanged, Result, Stati
<1>. QED
  BY <1>1, <1>2 DEF Read, Stati

(* The log says "changed" exactly when the agent is told of a success that    *)
(* changed something, whichever append failed.                                *)
LEMMA ToldIsLogged ==
  ASSUME NEW p, NEW r, Answered(r, p), NEW t \in Tellings(r)
  PROVE  /\ "changed" \in {t.log[i] : i \in DOMAIN t.log} <=> t.told = "success" /\ r.changed
         /\ t.told \in {"rejected", "exists"} => ~r.changed
<1>. DEFINE Words(log) == {log[i] : i \in DOMAIN log}
            word == Answer(r.status)
<1>1. /\ r.status \in Stati /\ word \in {"success", "error", "rejected"}
      /\ (word = "success") = (r.status = "success") /\ r.changed \in BOOLEAN
      /\ r.changed => r.status = "success"
  BY DEF Answered, Answer, Stati
<1>. HIDE DEF word
<1>2. /\ Words(<<>>) = {} /\ Words(<<word>>) = {word}
      /\ Words(<<word, "changed">>) = {word, "changed"}
      /\ Words(Append(<<>>, "error")) = {"error"}
      /\ Words(Append(<<word>>, "error")) = {word, "error"}
  OBVIOUS
<1>3. \/ t = Telling(IF r.changed THEN <<word, "changed">> ELSE <<word>>, r.status, 0)
      \/ t = Telling(Append(<<>>, "error"), "error", 1)
      \/ t = Telling(<<>>, "raised", 2)
      \/ t = Telling(Append(<<word>>, "error"), "error", 1)
      \/ t = Telling(<<word>>, "raised", 2)
      \/ t = Telling(<<>>, "raised", 1)
  BY DEF Tellings, word
<1>. HIDE DEF Words
<1>4. "changed" \in Words(t.log) <=> t.told = "success" /\ r.changed
  <2>1. CASE t = Telling(IF r.changed THEN <<word, "changed">> ELSE <<word>>, r.status, 0)
    <3>1. t.told = r.status /\ t.log = IF r.changed THEN <<word, "changed">> ELSE <<word>>
      BY <2>1 DEF Telling
    <3>2. CASE r.changed
      BY <1>1, <1>2, <3>1, <3>2
    <3>3. CASE ~r.changed
      BY <1>1, <1>2, <3>1, <3>3
    <3>. QED
      BY <3>2, <3>3
  <2>2. CASE t.told # "success" /\ t.log \in {<<>>, <<word>>, Append(<<>>, "error"), Append(<<word>>, "error")}
    <3>1. Words(t.log) \in {{}, {word}, {"error"}, {word, "error"}}
      BY <1>2, <2>2
    <3>2. "changed" \notin Words(t.log)
      BY <1>1, <3>1
    <3>. QED
      BY <2>2, <3>2
  <2>. QED
    BY <1>3, <2>1, <2>2 DEF Telling
<1>5. t.told \in {"rejected", "exists"} => ~r.changed
  BY <1>1, <1>3 DEF Telling, Stati
<1>. QED
  BY <1>4, <1>5 DEF Words

(* _prune_retained_file_evidence: the oldest excerpt that stays has all the   *)
(* others among the newer ones it is counted with.                            *)
LEMMA OldestOf ==
  ASSUME NEW P, IsFiniteSet(P), P # {},
         \A e \in P : e.step \in Nat /\ e.path \in Nat,
         \A e, f \in P : e.path = f.path => e = f
  PROVE  \E e \in P : \A f \in P : f = e \/ Newer(f, e)
<1>. DEFINE Older(e) == {f \in P : Newer(e, f)}
            T == {Older(e) : e \in P}
            R == StrictSubsetOrdering(P)
<1>1. T \subseteq FiniteSubsetsOf(P) /\ T # {}
  <2>1. ASSUME NEW e \in P
        PROVE  Older(e) \in FiniteSubsetsOf(P)
    <3>1. IsFiniteSet(Older(e))
      BY FS_Subset
    <3>. QED
      BY <3>1 DEF FiniteSubsetsOf
  <2>2. PICK e \in P : TRUE
    OBVIOUS
  <2>3. Older(e) \in T
    OBVIOUS
  <2>. HIDE DEF Older
  <2>. QED
    BY <2>1, <2>3
<1>2. IsWellFoundedOn(R, FiniteSubsetsOf(P))
  BY FS_StrictSubsetOrderingWellFounded
<1>. HIDE DEF R, T
<1>3. \E x \in T : \A y \in T : <<y, x>> \notin R
  BY <1>1, <1>2, WFMin
<1>. USE DEF T
<1>4. PICK e \in P : \A y \in T : <<y, Older(e)>> \notin R
  BY <1>3
<1>5. ASSUME NEW f \in P, f # e, ~Newer(f, e)
      PROVE  FALSE
  <2>1. /\ e.step \in Nat /\ e.path \in Nat /\ f.step \in Nat /\ f.path \in Nat
        /\ f.path # e.path
    BY <1>5
  <2>2. Newer(e, f)
    BY <1>5, <2>1 DEF Newer
  <2>3. Older(f) \subseteq Older(e)
    <3>1. ASSUME NEW g \in Older(f)
          PROVE  g \in Older(e)
      <4>1. g.step \in Nat /\ g.path \in Nat /\ g \in P /\ Newer(f, g)
        OBVIOUS
      <4>2. Newer(e, g)
        BY <2>1, <2>2, <4>1 DEF Newer
      <4>. QED
        BY <4>1, <4>2
    <3>. QED
      BY <3>1
  <2>4. f \in Older(e) /\ f \notin Older(f)
    BY <2>1, <2>2 DEF Newer
  <2>5. Older(f) \in SUBSET P /\ Older(e) \in SUBSET P /\ Older(f) # Older(e)
    BY <2>4
  <2>6. <<Older(f), Older(e)>> \in R
    BY <2>3, <2>5 DEF R, StrictSubsetOrdering
  <2>. QED
    BY <1>4, <2>6
<1>. QED
  BY <1>5

LEMMA PrunedIsBounded ==
  ASSUME NEW es, IsFiniteSet(es),
         \A e \in es : e.step \in Nat /\ e.path \in Nat,
         \A e, f \in es : e.path = f.path => e = f
  PROVE  Pruned(es) \subseteq es /\ Cardinality(Pruned(es)) <= MaxRetained
<1>1. Pruned(es) \subseteq es
  BY DEF Pruned
<1>2. IsFiniteSet(Pruned(es))
  BY <1>1, FS_Subset
<1>3. CASE Pruned(es) = {}
  BY <1>3, FS_EmptySet, ToolConstants
<1>4. CASE Pruned(es) # {}
  <2>1. PICK e \in Pruned(es) : \A f \in Pruned(es) : f = e \/ Newer(f, e)
    BY <1>1, <1>2, <1>4, OldestOf
  <2>. DEFINE kept == {f \in es : f = e \/ Newer(f, e)}
  <2>2. Cardinality(kept) <= MaxRetained
    BY <2>1 DEF Pruned
  <2>3. Pruned(es) \in SUBSET kept /\ IsFiniteSet(kept)
    <3>1. kept \in SUBSET es
      OBVIOUS
    <3>2. IsFiniteSet(kept)
      BY <3>1, FS_Subset
    <3>. QED
      BY <1>1, <2>1, <3>2
  <2>4. Cardinality(Pruned(es)) <= Cardinality(kept)
    BY <2>3, FS_Subset
  <2>5. Cardinality(Pruned(es)) \in Nat /\ Cardinality(kept) \in Nat /\ MaxRetained \in Nat
    BY <1>2, <2>3, FS_CardinalityType, ToolConstants
  <2>. HIDE DEF kept
  <2>. QED
    BY <1>1, <2>2, <2>4, <2>5
<1>. QED
  BY <1>1, <1>3, <1>4

LEMMA RetainedIsBounded ==
  ASSUME IInv, NEW tool, NEW p \in Paths, NEW r
  PROVE  LET es == Retained(tool, p, r)
         IN  /\ IsFiniteSet(es) /\ Cardinality(es) <= MaxRetained
             /\ \A e \in es : e.path \in Paths /\ e.step \in Nat
             /\ \A e, f \in es : e.path = f.path => e = f
<1>1. /\ IsFiniteSet(evidence) /\ Cardinality(evidence) <= MaxRetained
      /\ \A e \in evidence : e.path \in Paths /\ e.step \in Nat
      /\ \A e, f \in evidence : e.path = f.path => e = f
      /\ step \in Nat
  BY DEF IInv, Types, ShownIsBounded
<1>2. /\ Without(p) \in SUBSET evidence /\ IsFiniteSet(Without(p))
      /\ Cardinality(Without(p)) <= MaxRetained
  <2>1. Without(p) \in SUBSET evidence
    BY DEF Without
  <2>2. IsFiniteSet(Without(p)) /\ Cardinality(Without(p)) <= Cardinality(evidence)
    BY <1>1, <2>1, FS_Subset
  <2>3. /\ Cardinality(Without(p)) \in Nat /\ Cardinality(evidence) \in Nat
        /\ MaxRetained \in Nat
    BY <1>1, <2>2, FS_CardinalityType, ToolConstants
  <2>. QED
    BY <1>1, <2>1, <2>2, <2>3
<1>3. CASE r.changed
  BY <1>1, <1>2, <1>3 DEF Retained, Forgotten
<1>4. CASE ~r.changed /\ r.read > 0
  <2>. DEFINE es == Without(p) \cup {Excerpt(p, r)}
  <2>1. Retained(tool, p, r) = Pruned(es)
    BY <1>4 DEF Retained
  <2>2. IsFiniteSet(es)
    BY <1>2, FS_AddElement
  <2>3. Excerpt(p, r).path = p /\ Excerpt(p, r).step = step
    BY DEF Excerpt
  <2>4. \A e \in Without(p) : e \in evidence /\ e.path # p
    BY DEF Without
  <2>5. \A e \in es : e.path \in Paths /\ e.step \in Nat
    BY <1>1, <2>3, <2>4
  <2>6. \A e, f \in es : e.path = f.path => e = f
    BY <1>1, <2>3, <2>4
  <2>7. \A n \in Paths : n \in Nat
    BY ToolConstants DEF Paths
  <2>. HIDE DEF es
  <2>8. Pruned(es) \subseteq es /\ Cardinality(Pruned(es)) <= MaxRetained
    BY <2>2, <2>5, <2>6, <2>7, PrunedIsBounded
  <2>9. IsFiniteSet(Pruned(es))
    BY <2>2, <2>8, FS_Subset
  <2>. QED
    BY <2>1, <2>5, <2>6, <2>8, <2>9
<1>5. CASE ~r.changed /\ ~(r.read > 0)
  BY <1>1, <1>5 DEF Retained
<1>. QED
  BY <1>3, <1>4, <1>5

(* A retained excerpt is of what its file holds now.                          *)
LEMMA RetainedIsCurrent ==
  ASSUME IInv, NEW tool, NEW p \in Paths, NEW r, Answered(r, p),
         NEW e \in Retained(tool, p, r)
  PROVE  /\ e.path \in Paths
         /\ e.path = p => ~r.changed
         /\ e \in evidence \/ (e.path = p /\ e.of = files[p] /\ r.read > 0)
         /\ r.read > 0 => (e \in evidence /\ e.path # p) \/ (e.path = p /\ e.of = files[p])
<1>1. \A f \in evidence : f.path \in Paths
  BY DEF IInv, Types
<1>2. CASE r.changed
  BY <1>1, <1>2 DEF Retained, Forgotten, Without, Answered
<1>3. CASE ~r.changed /\ r.read > 0
  <2>1. e \in Without(p) \cup {Excerpt(p, r)}
    BY <1>3 DEF Retained, Pruned
  <2>2. Excerpt(p, r).path = p /\ Excerpt(p, r).of = files[p]
    BY DEF Excerpt
  <2>3. CASE e \in Without(p)
    <3>1. e \in evidence /\ e.path # p
      BY <2>3 DEF Without
    <3>. QED
      BY <1>1, <1>3, <3>1
  <2>4. CASE e = Excerpt(p, r)
    BY <1>3, <2>2, <2>4
  <2>. QED
    BY <2>1, <2>3, <2>4
<1>4. CASE ~r.changed /\ ~(r.read > 0)
  BY <1>1, <1>4 DEF Retained
<1>. QED
  BY <1>2, <1>3, <1>4 DEF Answered

LEMMA PerformStep ==
  ASSUME IInv, NEW tool, NEW p \in Paths, NEW r, Answered(r, p), Perform(tool, p, r),
         folder' \in BOOLEAN
  PROVE  IInv'
<1>1. PICK t \in Tellings(r) :
         /\ files' = [files EXCEPT ![p] = r.now]
         /\ evidence' = IF t.told = "success" THEN Retained(tool, p, r) ELSE evidence
         /\ changed' = IF t.told = "success" /\ r.changed THEN changed \cup {p} ELSE changed
         /\ logged' = IF "changed" \in {t.log[i] : i \in DOMAIN t.log} THEN logged \cup {p} ELSE logged
         /\ untold' = IF t.told = "success" /\ (r.changed \/ r.read > 0) THEN untold \ {p}
                      ELSE IF r.changed THEN untold \cup {p} ELSE untold
  BY DEF Perform
<1>2. "changed" \in {t.log[i] : i \in DOMAIN t.log} <=> t.told = "success" /\ r.changed
  BY ToldIsLogged
<1>3. /\ files \in [Paths -> Contents] /\ r.now \in Contents /\ r.changed \in BOOLEAN
      /\ ~r.changed => r.now = files[p]
  BY DEF IInv, Types, Answered
<1>4. /\ files' \in [Paths -> Contents] /\ files'[p] = r.now
      /\ \A q \in Paths \ {p} : files'[q] = files[q]
  BY <1>1, <1>3
<1>5. \A e \in evidence : e.path \in Paths /\ (e.path \notin untold => e.of = files[e.path])
  BY DEF IInv, Types, EvidenceIsCurrent
<1>6. ASSUME NEW e \in evidence'
      PROVE  e.path \in Paths /\ (e.path \notin untold' => e.of = files'[e.path])
  <2>1. CASE t.told = "success"
    <3>1. e \in Retained(tool, p, r)
      BY <1>1, <1>6, <2>1
    <3>2. /\ e.path \in Paths
          /\ e.path = p => ~r.changed
          /\ e \in evidence \/ (e.path = p /\ e.of = files[p] /\ r.read > 0)
          /\ r.read > 0 => (e \in evidence /\ e.path # p) \/ (e.path = p /\ e.of = files[p])
      BY <3>1, RetainedIsCurrent
    <3>. QED
      BY <1>1, <1>3, <1>4, <1>5, <2>1, <3>2
  <2>2. CASE t.told # "success"
    BY <1>1, <1>3, <1>4, <1>5, <1>6, <2>2
  <2>. QED
    BY <2>1, <2>2
<1>7. step' = step
  BY DEF Perform
<1>8. /\ IsFiniteSet(evidence') /\ Cardinality(evidence') <= MaxRetained
      /\ \A e \in evidence' : e.path \in Paths /\ e.step \in Nat
      /\ \A e, f \in evidence' : e.path = f.path => e = f
  <2>1. CASE t.told = "success"
    <3>1. evidence' = Retained(tool, p, r)
      BY <1>1, <2>1
    <3>. QED
      BY <3>1, RetainedIsBounded
  <2>2. CASE t.told # "success"
    <3>1. evidence' = evidence
      BY <1>1, <2>2
    <3>. QED
      BY <3>1 DEF IInv, Types, ShownIsBounded
  <2>. QED
    BY <2>1, <2>2
<1>9. changed' = logged' /\ changed' \subseteq Paths /\ untold' \subseteq Paths
  BY <1>1, <1>2 DEF IInv, Types, ChangedIsLogged
<1>. QED
  <2>1. step' \in Nat
    BY <1>7 DEF IInv, Types
  <2>. QED
    BY <1>4, <1>6, <1>9, <1>8, <2>1 DEF IInv, Types, EvidenceIsCurrent, ShownIsBounded, ChangedIsLogged

(* Every call of the model is a call with such an answer.                     *)
Called(tool, p, r) ==
    /\ p \in Paths /\ Answered(r, p) /\ Perform(tool, p, r)
    /\ UNCHANGED folder \/ folder' = (folder \/ (InFolder(p) /\ r.changed))

LEMMA CallIsPerformed ==
  ASSUME Types, ReadFile \/ WriteFile \/ DeleteFile \/ CreateFile
                \/ ListDirectory \/ SearchText \/ InvalidCall
  PROVE  \E tool, p, r : Called(tool, p, r)
<1>1. CASE ReadFile
  <2>1. PICK p \in Paths, limit \in {1, OutputLimit} :
           Perform("read_file", p, Read(p, limit)) /\ UNCHANGED folder
    BY <1>1 DEF ReadFile
  <2>2. Answered(Read(p, limit), p)
    BY ReadsAreAnswers
  <2>3. Called("read_file", p, Read(p, limit))
    BY <2>1, <2>2 DEF Called
  <2>. QED
    BY <2>3
<1>2. CASE WriteFile
  <2>1. PICK p \in Paths, t \in Texts :
           Perform("write_file", p, Write(p, t)) /\ UNCHANGED folder
    BY <1>2 DEF WriteFile
  <2>2. Answered(Write(p, t), p)
    BY WritesAreAnswers
  <2>3. Called("write_file", p, Write(p, t))
    BY <2>1, <2>2 DEF Called
  <2>. QED
    BY <2>3
<1>3. CASE DeleteFile
  <2>1. PICK p \in Paths : Perform("delete_file", p, Delete(p)) /\ UNCHANGED folder
    BY <1>3 DEF DeleteFile
  <2>2. Answered(Delete(p), p)
    BY DeletesAreAnswers
  <2>3. Called("delete_file", p, Delete(p))
    BY <2>1, <2>2 DEF Called
  <2>. QED
    BY <2>3
<1>4. CASE CreateFile
  <2>1. PICK p \in Paths, t \in Texts :
           Perform("create_file", p, Create(p, t)) /\ folder' = FolderAfter(p, Create(p, t))
    BY <1>4 DEF CreateFile
  <2>2. Answered(Create(p, t), p)
    BY WritesAreAnswers
  <2>3. Called("create_file", p, Create(p, t))
    BY <2>1, <2>2 DEF Called, FolderAfter
  <2>. QED
    BY <2>3
<1>5. CASE ListDirectory \/ SearchText \/ InvalidCall
  <2>1. 1 \in Paths
    BY ToolConstants DEF Paths
  <2>2. ASSUME NEW tool, NEW stati \in SUBSET Stati, Looks(tool, stati)
        PROVE  \E p, r : Called(tool, p, r)
    <3>1. PICK status \in stati : Perform(tool, 1, Unchanged(status, 1)) /\ UNCHANGED folder
      BY <2>2 DEF Looks
    <3>2. Answered(Unchanged(status, 1), 1)
      BY <2>1, ResultsAreAnswers
    <3>3. Called(tool, 1, Unchanged(status, 1))
      BY <2>1, <3>1, <3>2 DEF Called
    <3>. QED
      BY <3>3
  <2>3. {"success", "error", "rejected"} \in SUBSET Stati /\ {"rejected"} \in SUBSET Stati
    BY DEF Stati
  <2>4. CASE ListDirectory
    BY <2>2, <2>3, <2>4 DEF ListDirectory
  <2>5. CASE SearchText
    BY <2>2, <2>3, <2>5 DEF SearchText
  <2>6. CASE InvalidCall
    BY <2>2, <2>3, <2>6 DEF InvalidCall
  <2>. QED
    BY <1>5, <2>4, <2>5, <2>6
<1>. QED
  BY <1>1, <1>2, <1>3, <1>4, <1>5

(* A file changed otherwise is one the agent has not been told of.            *)
LEMMA UntoldStep ==
  ASSUME IInv, NEW p \in Paths, NEW now \in Contents,
         files' = [files EXCEPT ![p] = now], untold' = untold \cup {p}, folder' \in BOOLEAN,
         UNCHANGED <<step, evidence, changed, logged>>
  PROVE  IInv'
<1>1. /\ files' \in [Paths -> Contents]
      /\ \A q \in Paths \ {p} : files'[q] = files[q]
  BY DEF IInv, Types
<1>2. \A e \in evidence : e.path \notin untold' => e.of = files'[e.path]
  BY <1>1 DEF IInv, Types, EvidenceIsCurrent
<1>. QED
  BY <1>1, <1>2 DEF IInv, Types, EvidenceIsCurrent, ShownIsBounded, ChangedIsLogged

LEMMA InitIInv == Init => IInv
<1>. SUFFICES ASSUME Init
              PROVE  IInv
  OBVIOUS
<1>1. files \in [Paths -> Contents] /\ folder \in BOOLEAN
  BY DEF Init, Contents
<1>. QED
  BY <1>1, FS_EmptySet, ToolConstants
  DEF Init, IInv, Types, EvidenceIsCurrent, ShownIsBounded, ChangedIsLogged, Paths

LEMMA NextStep ==
  ASSUME IInv, [Next]_vars
  PROVE  IInv'
<1>0. folder \in BOOLEAN
  BY DEF IInv, Types
<1>1. CASE ReadFile \/ WriteFile \/ DeleteFile \/ CreateFile
           \/ ListDirectory \/ SearchText \/ InvalidCall
  <2>1. PICK tool, p, r : Called(tool, p, r)
    BY <1>1, CallIsPerformed DEF IInv
  <2>2. folder' \in BOOLEAN
    BY <1>0, <2>1 DEF Called
  <2>. QED
    BY <2>1, <2>2, PerformStep DEF Called
<1>2. CASE WriteTears
  <2>1. PICK p \in Paths, t \in Texts :
           /\ files' = [files EXCEPT ![p] = Torn] /\ untold' = untold \cup {p}
           /\ UNCHANGED folder \/ folder' = (folder \/ InFolder(p))
           /\ UNCHANGED <<step, evidence, changed, logged>>
    BY <1>2 DEF WriteTears
  <2>2. folder' \in BOOLEAN /\ Torn \in Contents
    BY <1>0, <2>1 DEF Contents
  <2>. QED
    BY <2>1, <2>2, UntoldStep
<1>3. CASE UserEdits
  <2>1. PICK p \in Paths, now \in Texts \cup {Absent} :
           /\ files' = [files EXCEPT ![p] = now] /\ untold' = untold \cup {p}
           /\ UNCHANGED <<folder, step, evidence, changed, logged>>
    BY <1>3 DEF UserEdits, telling
  <2>2. now \in Contents
    BY DEF Contents
  <2>. QED
    BY <1>0, <2>1, <2>2, UntoldStep
<1>4. CASE RequestUnlogged \/ NextTurn \/ UNCHANGED vars
  <2>1. UNCHANGED <<files, folder, evidence, changed, logged, untold>>
        /\ step' \in {step, step + 1}
    BY <1>4 DEF RequestUnlogged, NextTurn, telling, vars
  <2>2. step' \in Nat
    BY <2>1 DEF IInv, Types
  <2>. QED
    BY <2>1, <2>2 DEF IInv, Types, EvidenceIsCurrent, ShownIsBounded, ChangedIsLogged
<1>. QED
  BY <1>1, <1>2, <1>3, <1>4 DEF Next

-----------------------------------------------------------------------------
(* Every step keeps the invariant.                                            *)
THEOREM InvariantHolds == Spec => []IInv
<1>. QED
  BY InitIInv, NextStep, PTL DEF Spec

(* What the model is shown of a file is what the file holds, unless something *)
(* changed it that the agent was not told of.                                 *)
THEOREM ShownIsCurrent == Spec => []EvidenceIsCurrent
<1>1. IInv => EvidenceIsCurrent
  BY DEF IInv
<1>. QED
  BY <1>1, InvariantHolds, PTL

(* No more excerpts are shown than may be retained, and one of a file.        *)
THEOREM ShownStaysBounded == Spec => []ShownIsBounded
<1>1. IInv => ShownIsBounded
  BY DEF IInv
<1>. QED
  BY <1>1, InvariantHolds, PTL

(* The run state and the event log agree on the changed files, whichever      *)
(* append to the log failed.                                                  *)
THEOREM ChangesAreLogged == Spec => []ChangedIsLogged
<1>1. IInv => ChangedIsLogged
  BY DEF IInv
<1>. QED
  BY <1>1, InvariantHolds, PTL

(* A call that the agent was told is rejected has left nothing behind.        *)
THEOREM RefusalsTouchNothing == Spec => RefusedTouchesNothing
<1>. DEFINE Kept == calls' # calls /\ last'.told \in {"rejected", "exists"} =>
                      UNCHANGED <<files, folder, evidence, changed, pending>>
<1>1. ASSUME IInv, [Next]_vars
      PROVE  Kept
  <2>1. CASE ReadFile \/ WriteFile \/ DeleteFile \/ CreateFile
             \/ ListDirectory \/ SearchText \/ InvalidCall
    <3>1. PICK tool, p, r : Called(tool, p, r)
      BY <1>1, <2>1, CallIsPerformed DEF IInv
    <3>2. /\ p \in Paths /\ Answered(r, p) /\ Perform(tool, p, r)
          /\ UNCHANGED folder \/ folder' = (folder \/ (InFolder(p) /\ r.changed))
      BY <3>1 DEF Called
    <3>3. PICK t \in Tellings(r) :
             /\ files' = [files EXCEPT ![p] = r.now] /\ last' = [log |-> t.log, told |-> t.told]
             /\ evidence' = IF t.told = "success" THEN Retained(tool, p, r) ELSE evidence
             /\ changed' = IF t.told = "success" /\ r.changed THEN changed \cup {p} ELSE changed
             /\ pending' = IF t.told = "success" /\ r.changed /\ tool # "delete_file"
                           THEN pending \ {p} ELSE pending
      BY <3>2 DEF Perform
    <3>4. t.told \in {"rejected", "exists"} => ~r.changed
      BY <3>2, ToldIsLogged
    <3>. SUFFICES ASSUME t.told \in {"rejected", "exists"}
                  PROVE  UNCHANGED <<files, folder, evidence, changed, pending>>
      BY <3>3
    <3>5. r.now = files[p] /\ ~r.changed /\ files \in [Paths -> Contents] /\ folder \in BOOLEAN
      BY <1>1, <3>2, <3>4 DEF Answered, IInv, Types
    <3>6. files' = files
      BY <3>3, <3>5
    <3>7. folder' = folder
      BY <3>2, <3>5
    <3>8. evidence' = evidence /\ changed' = changed /\ pending' = pending
      BY <3>3, <3>5
    <3>. QED
      BY <3>6, <3>7, <3>8
  <2>2. CASE WriteTears \/ RequestUnlogged \/ NextTurn \/ UserEdits \/ UNCHANGED vars
    BY <2>2 DEF WriteTears, RequestUnlogged, NextTurn, UserEdits, vars
  <2>. QED
    BY <1>1, <2>1, <2>2 DEF Next
<1>. QED
  BY <1>1, InvariantHolds, PTL DEF Spec, RefusedTouchesNothing

(* The least element of a set of numbers: of the intervals from zero to each, *)
(* one is minimal under inclusion.                                            *)
LEMMA LeastNat ==
  ASSUME NEW S \in SUBSET Nat, S # {}
  PROVE  \E x \in S : \A y \in S : x <= y
<1>. DEFINE T == {0..n : n \in S}
            R == StrictSubsetOrdering(Nat)
<1>1. T \subseteq FiniteSubsetsOf(Nat) /\ T # {}
  <2>1. ASSUME NEW n \in S
        PROVE  0..n \in FiniteSubsetsOf(Nat)
    <3>1. IsFiniteSet(0..n)
      BY FS_Interval
    <3>. QED
      BY <3>1 DEF FiniteSubsetsOf
  <2>. QED
    BY <2>1
<1>2. IsWellFoundedOn(R, FiniteSubsetsOf(Nat))
  BY FS_StrictSubsetOrderingWellFounded
<1>. HIDE DEF R, T
<1>3. \E x \in T : \A y \in T : <<y, x>> \notin R
  BY <1>1, <1>2, WFMin
<1>. USE DEF T
<1>4. PICK n \in S : \A y \in T : <<y, 0..n>> \notin R
  BY <1>3
<1>5. ASSUME NEW m \in S, ~(n <= m)
      PROVE  FALSE
  <2>1. m \in Nat /\ n \in Nat /\ m < n
    BY <1>5
  <2>2. 0..m \subseteq 0..n /\ n \in 0..n /\ n \notin 0..m
    BY <2>1
  <2>3. 0..m \in SUBSET Nat /\ 0..n \in SUBSET Nat /\ 0..m # 0..n
    BY <2>1, <2>2
  <2>4. <<0..m, 0..n>> \in R
    BY <2>2, <2>3 DEF R, StrictSubsetOrdering
  <2>. QED
    BY <1>4, <2>4
<1>. QED
  BY <1>5

-----------------------------------------------------------------------------
(* Knowledge: lemmas on its operators.                                        *)

(* Sequences are joined one after the other.                                  *)
LEMMA FlattenRuns ==
  ASSUME NEW S, NEW s \in Seq(Seq(S))
  PROVE  \E h : /\ Len(s) # 0 => FlattenSeq(s) = h[Len(s)]
               /\ \A i \in 1..Len(s) :
                     h[i] \in Seq(S) /\ h[i] = IF i = 1 THEN s[i] ELSE h[i - 1] \o s[i]
<1>. DEFINE N == Len(s)
            Joins(f, m) == \A i \in 1..m : f[i] = IF i = 1 THEN s[i] ELSE f[i - 1] \o s[i]
            Joined(m) == \E f \in [1..m -> Seq(S)] : Joins(f, m)
            Bad == {m \in 0..N : ~Joined(m)}
<1>1. N \in Nat /\ \A i \in 1..N : s[i] \in Seq(S)
  OBVIOUS
<1>. HIDE DEF N
<1>2. Bad = {}
  <2>. SUFFICES ASSUME Bad # {}
                PROVE  FALSE
    OBVIOUS
  <2>1. PICK m \in Bad : \A k \in Bad : m <= k
    <3>1. Bad \in SUBSET Nat
      BY <1>1
    <3>. HIDE DEF Bad
    <3>. QED
      BY <3>1, LeastNat
  <2>2. m \in 0..N /\ m \in Nat
    BY <1>1
  <2>3. CASE m = 0
    <3>. DEFINE f == [i \in 1..0 |-> <<>>]
    <3>1. f \in [1..0 -> Seq(S)] /\ Joins(f, 0)
      OBVIOUS
    <3>. QED
      BY <3>1, <2>3
  <2>4. CASE m # 0
    <3>1. m - 1 \in 0..N /\ m - 1 \notin Bad
      <4>1. m - 1 \in 0..N /\ ~(m <= m - 1)
        BY <1>1, <2>2, <2>4
      <4>. QED
        BY <2>1, <4>1
    <3>2. PICK f \in [1..(m - 1) -> Seq(S)] : Joins(f, m - 1)
      BY <3>1
    <3>. DEFINE g == [i \in 1..m |-> IF i = m
                                     THEN IF m = 1 THEN s[m] ELSE f[m - 1] \o s[m] ELSE f[i]]
    <3>3. s[m] \in Seq(S) /\ (m # 1 => f[m - 1] \in Seq(S))
      BY <1>1, <2>2, <2>4, <3>2
    <3>4. (m # 1 => f[m - 1] \o s[m] \in Seq(S))
      BY <3>3
    <3>5. g \in [1..m -> Seq(S)]
      BY <2>2, <2>4, <3>2, <3>3, <3>4
    <3>6. ASSUME NEW i \in 1..(m - 1)
          PROVE  g[i] = f[i]
      <4>1. i \in 1..m /\ i # m
        BY <2>2
      <4>. QED
        BY <4>1
    <3>7. g[m] = IF m = 1 THEN s[m] ELSE f[m - 1] \o s[m]
      BY <2>2, <2>4
    <3>. HIDE DEF g
    <3>8. ASSUME NEW i \in 1..m
          PROVE  g[i] = IF i = 1 THEN s[i] ELSE g[i - 1] \o s[i]
      <4>1. CASE i = m
        <5>1. m # 1 => m - 1 \in 1..(m - 1)
          BY <2>2, <2>4
        <5>. QED
          BY <3>6, <3>7, <4>1, <5>1
      <4>2. CASE i # m
        <5>1. i \in 1..(m - 1) /\ (i # 1 => i - 1 \in 1..(m - 1))
          BY <2>2, <4>2
        <5>. QED
          BY <3>2, <3>6, <5>1
      <4>. QED
        BY <4>1, <4>2
    <3>. QED
      BY <3>5, <3>8
  <2>. QED
    BY <2>3, <2>4
<1>3. PICK f \in [1..N -> Seq(S)] : Joins(f, N)
  <2>1. Joined(N)
    <3>. HIDE DEF Joined
    <3>1. N \in 0..N
      BY <1>1
    <3>. QED
      BY <1>2, <3>1
  <2>. QED
    BY <2>1
<1>. DEFINE Flattens(x) == x = [i \in 1..N |-> IF i = 1 THEN s[i] ELSE x[i - 1] \o s[i]]
            h == CHOOSE x : Flattens(x)
<1>4. Flattens(f)
  BY <1>1, <1>3
<1>5. Flattens(h)
  BY <1>4
<1>6. FlattenSeq(s) = IF N = 0 THEN s ELSE h[N]
  BY DEF FlattenSeq, N
<1>. HIDE DEF h
<1>7. \A i \in 1..N : h[i] = IF i = 1 THEN s[i] ELSE h[i - 1] \o s[i]
  BY <1>1, <1>5
<1>. DEFINE Off == {i \in 1..N : h[i] \notin Seq(S)}
<1>8. Off = {}
  <2>. SUFFICES ASSUME Off # {}
                PROVE  FALSE
    OBVIOUS
  <2>1. PICK m \in Off : \A k \in Off : m <= k
    <3>1. Off \in SUBSET Nat
      BY <1>1
    <3>. HIDE DEF Off
    <3>. QED
      BY <3>1, LeastNat
  <2>2. m \in 1..N /\ h[m] = (IF m = 1 THEN s[m] ELSE h[m - 1] \o s[m]) /\ s[m] \in Seq(S)
    BY <1>1, <1>7
  <2>3. m # 1 => h[m - 1] \in Seq(S)
    <3>1. m # 1 => m - 1 \in 1..N /\ ~(m <= m - 1)
      BY <1>1, <2>2
    <3>. QED
      BY <2>1, <3>1
  <2>4. m # 1 => h[m - 1] \o s[m] \in Seq(S)
    BY <2>2, <2>3
  <2>. QED
    BY <2>1, <2>2, <2>4
<1>. QED
  BY <1>6, <1>7, <1>8 DEF N

(* Joining sequences adds no element.                                         *)
LEMMA FlattenIn ==
  ASSUME NEW S, NEW s \in Seq(Seq(S))
  PROVE  FlattenSeq(s) \in Seq(S)
<1>1. CASE Len(s) = 0
  BY <1>1 DEF FlattenSeq
<1>2. CASE Len(s) # 0
  <2>1. Len(s) \in 1..Len(s)
    BY <1>2
  <2>. QED
    BY <1>2, <2>1, FlattenRuns
<1>. QED
  BY <1>1, <1>2

(* What a sequence of sequences is joined to, given what its beginnings are.  *)
LEMMA FlattenIs ==
  ASSUME NEW S, NEW s \in Seq(Seq(S)), NEW g, g[0] = <<>>,
         \A i \in 1..Len(s) : g[i - 1] \in Seq(S) /\ g[i] = g[i - 1] \o s[i]
  PROVE  FlattenSeq(s) = g[Len(s)]
<1>1. CASE Len(s) = 0
  BY <1>1 DEF FlattenSeq
<1>2. CASE Len(s) # 0
  <2>1. PICK h : /\ FlattenSeq(s) = h[Len(s)]
                 /\ \A i \in 1..Len(s) :
                       h[i] \in Seq(S) /\ h[i] = IF i = 1 THEN s[i] ELSE h[i - 1] \o s[i]
    <3>1. \E h : /\ Len(s) # 0 => FlattenSeq(s) = h[Len(s)]
                 /\ \A i \in 1..Len(s) :
                       h[i] \in Seq(S) /\ h[i] = IF i = 1 THEN s[i] ELSE h[i - 1] \o s[i]
      BY FlattenRuns
    <3>. QED
      BY <1>2, <3>1
  <2>. DEFINE Off == {i \in 1..Len(s) : h[i] # g[i]}
  <2>2. Off = {}
    <3>. SUFFICES ASSUME Off # {}
                  PROVE  FALSE
      OBVIOUS
    <3>1. PICK m \in Off : \A k \in Off : m <= k
      <4>1. Off \in SUBSET Nat
        OBVIOUS
      <4>. HIDE DEF Off
      <4>. QED
        BY <4>1, LeastNat
    <3>0. m \in 1..Len(s) /\ h[m] # g[m]
      BY <3>1
    <3>. HIDE DEF Off
    <3>2. m \in 1..Len(s) /\ h[m] # g[m] /\ s[m] \in Seq(S) /\ g[m] = g[m - 1] \o s[m]
      <4>. DEFINE Q == Seq(S)
      <4>1. s \in Seq(Q)
        OBVIOUS
      <4>. HIDE DEF Q
      <4>2. s[m] \in Q
        BY <3>0, <4>1
      <4>. QED
        BY <3>0, <4>2 DEF Q
    <3>3. m # 1 => m - 1 \in 1..Len(s) /\ ~(m <= m - 1)
      BY <3>2
    <3>4. m # 1 => h[m - 1] = g[m - 1]
      BY <3>1, <3>3 DEF Off
    <3>5. CASE m = 1
      <4>1. g[0] \o s[m] = s[m]
        BY <3>2
      <4>2. h[m] = s[m]
        BY <2>1, <3>0, <3>5
      <4>3. g[m] = g[0] \o s[m]
        <5>1. m - 1 = 0
          BY <3>5
        <5>. QED
          BY <3>2, <5>1
      <4>. QED
        BY <3>0, <4>1, <4>2, <4>3
    <3>6. CASE m # 1
      BY <2>1, <3>2, <3>4, <3>6
    <3>. QED
      BY <3>5, <3>6
  <2>3. Len(s) \in 1..Len(s)
    BY <1>2
  <2>. QED
    BY <2>1, <2>2, <2>3
<1>. QED
  BY <1>1, <1>2

(* Joining one half after the other.                                          *)
LEMMA FlattenCat ==
  ASSUME NEW S, NEW s \in Seq(Seq(S)), NEW t \in Seq(Seq(S))
  PROVE  FlattenSeq(s \o t) = FlattenSeq(s) \o FlattenSeq(t)
<1>0. ASSUME NEW x \in Seq(Seq(S))
      PROVE  \E h : /\ Len(x) # 0 => FlattenSeq(x) = h[Len(x)]
                   /\ \A i \in 1..Len(x) :
                         h[i] \in Seq(S) /\ h[i] = IF i = 1 THEN x[i] ELSE h[i - 1] \o x[i]
  BY FlattenRuns, ZenonT(30)
<1>. DEFINE a == Len(s)
            b == Len(t)
            u == s \o t
            Fs == FlattenSeq(s)
            Ft == FlattenSeq(t)
            Q == Seq(S)
<1>1. PICK h : /\ a # 0 => Fs = h[a]
               /\ \A i \in 1..a : h[i] \in Q /\ h[i] = IF i = 1 THEN s[i] ELSE h[i - 1] \o s[i]
  BY <1>0
<1>2. PICK k : /\ b # 0 => Ft = k[b]
               /\ \A i \in 1..b : k[i] \in Q /\ k[i] = IF i = 1 THEN t[i] ELSE k[i - 1] \o t[i]
  BY <1>0
<1>3. Fs \in Q /\ Ft \in Q
  BY FlattenIn
<1>4. (a = 0 => Fs = <<>>) /\ (b = 0 => Ft = <<>>)
  <2>1. (a = 0 => Fs = s) /\ (b = 0 => Ft = t)
    BY DEF FlattenSeq
  <2>. QED
    BY <2>1
<1>5. \A x, y, z \in Q : (x \o y) \o z = x \o (y \o z) /\ x \o y \in Q
  OBVIOUS
<1>6. \A x \in Q : <<>> \o x = x /\ x \o <<>> = x
  OBVIOUS
<1>7. <<>> \in Q
  OBVIOUS
<1>8. s \in Seq(Q) /\ t \in Seq(Q)
  OBVIOUS
<1>. HIDE DEF Q
<1>9. /\ a \in Nat /\ b \in Nat /\ u \in Seq(Q) /\ Len(u) = a + b
      /\ \A i \in 1..a : u[i] = s[i] /\ s[i] \in Q
      /\ \A i \in (a + 1)..(a + b) : u[i] = t[i - a]
      /\ \A i \in 1..b : t[i] \in Q
  BY <1>8
<1>. DEFINE g == [i \in 0..(a + b) |->
                    IF i = 0 THEN <<>> ELSE IF i <= a THEN h[i]
                    ELSE Fs \o k[i - a]]
<1>10. g[0] = <<>>
  BY <1>9
<1>11. /\ \A i \in 1..a : g[i] = h[i]
       /\ \A i \in (a + 1)..(a + b) : g[i] = Fs \o k[i - a]
  BY <1>9
<1>. HIDE DEF a, b, u, Fs, Ft, g
<1>12. ASSUME NEW i \in 1..(a + b)
       PROVE  g[i - 1] \in Q /\ g[i] = g[i - 1] \o u[i]
  <2>1. CASE i <= a
    <3>1. i \in 1..a /\ (i # 1 => i - 1 \in 1..a)
      BY <1>9, <2>1
    <3>2. CASE i = 1
      <4>1. g[i] = h[i] /\ h[i] = s[i] /\ u[i] = s[i] /\ s[i] \in Q
        BY <1>1, <1>9, <1>11, <3>1, <3>2
      <4>2. g[i - 1] = <<>>
        BY <1>10, <3>2
      <4>. QED
        BY <1>6, <1>7, <4>1, <4>2
    <3>3. CASE i # 1
      <4>1. g[i - 1] = h[i - 1] /\ h[i - 1] \in Q
        BY <1>1, <1>11, <3>1, <3>3
      <4>2. h[i] = h[i - 1] \o s[i] /\ g[i] = h[i] /\ u[i] = s[i]
        BY <1>1, <1>9, <1>11, <3>1, <3>3
      <4>. QED
        BY <4>1, <4>2
    <3>. QED
      BY <3>2, <3>3
  <2>2. CASE ~(i <= a)
    <3>1. i \in (a + 1)..(a + b) /\ i - a \in 1..b
      BY <1>9, <2>2
    <3>2. g[i] = Fs \o k[i - a] /\ u[i] = t[i - a] /\ k[i - a] \in Q /\ t[i - a] \in Q
      BY <1>2, <1>9, <1>11, <3>1
    <3>3. CASE i = a + 1
      <4>1. i - a = 1 /\ i - 1 = a
        BY <1>9, <3>3
      <4>2. k[i - a] = t[i - a]
        BY <1>2, <3>1, <4>1
      <4>3. g[i - 1] = Fs
        <5>1. CASE a = 0
          BY <1>4, <1>10, <4>1, <5>1
        <5>2. CASE a # 0
          <6>1. a \in 1..a
            BY <1>9, <5>2
          <6>. QED
            BY <1>1, <1>11, <4>1, <5>2, <6>1
        <5>. QED
          BY <5>1, <5>2
      <4>4. g[i - 1] \in Q
        BY <1>3, <4>3
      <4>. QED
        BY <3>2, <4>2, <4>3, <4>4
    <3>4. CASE i # a + 1
      <4>1. i - 1 \in (a + 1)..(a + b) /\ (i - 1) - a \in 1..b /\ (i - 1) - a = (i - a) - 1 /\ i - a # 1
        BY <1>9, <3>1, <3>4
      <4>2. g[i - 1] = Fs \o k[(i - a) - 1] /\ k[(i - a) - 1] \in Q
        BY <1>2, <1>11, <4>1
      <4>3. k[i - a] = k[(i - a) - 1] \o t[i - a]
        BY <1>2, <3>1, <4>1
      <4>4. g[i - 1] \in Q
        BY <1>3, <1>5, <4>2
      <4>5. (Fs \o k[(i - a) - 1]) \o t[i - a] = Fs \o (k[(i - a) - 1] \o t[i - a])
        <5>. DEFINE y == k[(i - a) - 1]
                    z == t[i - a]
        <5>1. y \in Q /\ z \in Q
          BY <3>2, <4>2
        <5>. HIDE DEF y, z
        <5>2. (Fs \o y) \o z = Fs \o (y \o z)
          BY <1>3, <1>5, <5>1
        <5>. QED
          BY <5>2 DEF y, z
      <4>. QED
        BY <3>2, <4>2, <4>3, <4>4, <4>5
    <3>. QED
      BY <3>3, <3>4
  <2>. QED
    BY <2>1, <2>2
<1>13. FlattenSeq(u) = g[a + b]
  <2>1. u \in Seq(Seq(S)) /\ Len(u) = a + b
    BY <1>9 DEF Q
  <2>2. \A i \in 1..Len(u) : g[i - 1] \in Seq(S) /\ g[i] = g[i - 1] \o u[i]
    BY <1>12, <2>1 DEF Q
  <2>3. FlattenSeq(u) = g[Len(u)]
    BY <1>10, <2>1, <2>2, FlattenIs
  <2>. QED
    BY <2>1, <2>3
<1>14. g[a + b] = Fs \o Ft
  <2>1. CASE b = 0
    <3>1. CASE a = 0
      <4>1. a + b = 0 /\ Fs = <<>> /\ Ft = <<>>
        BY <1>4, <2>1, <3>1
      <4>. QED
        BY <1>6, <1>7, <1>10, <4>1
    <3>2. CASE a # 0
      <4>1. a + b \in 1..a /\ a + b = a
        BY <1>9, <2>1, <3>2
      <4>. QED
        BY <1>1, <1>3, <1>4, <1>6, <1>11, <2>1, <3>2, <4>1
    <3>. QED
      BY <3>1, <3>2
  <2>2. CASE b # 0
    <3>1. a + b \in (a + 1)..(a + b) /\ (a + b) - a = b
      BY <1>9, <2>2
    <3>2. g[a + b] = Fs \o k[(a + b) - a]
      BY <1>11, <3>1
    <3>. QED
      BY <1>2, <2>2, <3>1, <3>2
  <2>. QED
    BY <2>1, <2>2
<1>. QED
  BY <1>13, <1>14 DEF u, Fs, Ft

(* Joining nothing, and joining single elements.                              *)
LEMMA FlattenNone ==
  ASSUME NEW s, NEW n \in Nat, s = [i \in 1..n |-> <<>>]
  PROVE  FlattenSeq(s) = <<>>
<1>. DEFINE g == [i \in 0..n |-> <<>>]
            Q == Seq({})
<1>1. <<>> \in Q /\ <<>> \o <<>> = <<>>
  OBVIOUS
<1>. HIDE DEF Q
<1>2. s \in Seq(Q) /\ Len(s) = n /\ \A i \in 1..n : s[i] = <<>>
  BY <1>1
<1>3. g[0] = <<>> /\ g[n] = <<>> /\ \A i \in 1..n : i - 1 \in 0..n /\ g[i - 1] = <<>> /\ g[i] = <<>>
  OBVIOUS
<1>. HIDE DEF g
<1>. QED
  <2>1. s \in Seq(Seq({}))
    BY <1>2 DEF Q
  <2>2. \A i \in 1..Len(s) : g[i - 1] \in Seq({}) /\ g[i] = g[i - 1] \o s[i]
    <3>1. \A i \in 1..Len(s) : g[i - 1] = <<>> /\ g[i] = <<>> /\ s[i] = <<>>
      BY <1>2, <1>3
    <3>. QED
      BY <1>1, <3>1 DEF Q
  <2>3. g[0] = <<>> /\ g[Len(s)] = <<>>
    BY <1>2, <1>3
  <2>4. FlattenSeq(s) = g[Len(s)]
    BY <2>1, <2>2, <2>3, FlattenIs
  <2>. QED
    BY <2>3, <2>4

LEMMA FlattenOnes ==
  ASSUME NEW S, NEW e \in Seq(S)
  PROVE  FlattenSeq([i \in DOMAIN e |-> <<e[i]>>]) = e
<1>. DEFINE n == Len(e)
            s == [i \in DOMAIN e |-> <<e[i]>>]
            g == [i \in 0..n |-> [j \in 1..i |-> e[j]]]
            Q == Seq(S)
<1>1. n \in Nat /\ DOMAIN e = 1..n /\ (\A i \in 1..n : e[i] \in S) /\ e = [i \in 1..n |-> e[i]]
  OBVIOUS
<1>2. \A i \in 1..n : <<e[i]>> \in Q
  BY <1>1
<1>3. s \in Seq(Q) /\ Len(s) = n /\ \A i \in 1..n : s[i] = <<e[i]>>
  <2>. HIDE DEF Q
  <2>. QED
    BY <1>1, <1>2
<1>4. ASSUME NEW i \in 0..n
      PROVE  g[i] = [j \in 1..i |-> e[j]] /\ g[i] \in Q /\ Len(g[i]) = i /\ \A j \in 1..i : g[i][j] = e[j]
  <2>1. \A j \in 1..i : e[j] \in S
    BY <1>1
  <2>. QED
    BY <2>1
<1>5. g[0] = <<>> /\ g[n] = e
  <2>1. 0 \in 0..n /\ n \in 0..n
    BY <1>1
  <2>2. g[0] = [j \in 1..0 |-> e[j]] /\ g[n] = [j \in 1..n |-> e[j]]
    BY <2>1
  <2>. QED
    BY <1>1, <2>2
<1>. HIDE DEF g
<1>6. ASSUME NEW i \in 1..n
      PROVE  g[i - 1] \in Q /\ g[i] = g[i - 1] \o s[i]
  <2>1. i - 1 \in 0..n /\ i \in 0..n
    BY <1>1
  <2>2. /\ g[i - 1] \in Q /\ Len(g[i - 1]) = i - 1 /\ \A j \in 1..(i - 1) : g[i - 1][j] = e[j]
    BY <1>4, <2>1
  <2>3. /\ g[i] \in Q /\ Len(g[i]) = i /\ \A j \in 1..i : g[i][j] = e[j]
    BY <1>4, <2>1
  <2>4. s[i] = <<e[i]>> /\ s[i] \in Q
    BY <1>2, <1>3
  <2>. DEFINE x == g[i - 1]
              y == g[i]
  <2>5. /\ x \in Seq(S) /\ y \in Seq(S) /\ Len(x) + 1 = Len(y)
        /\ \A j \in 1..Len(x) : x[j] = y[j]
        /\ y[Len(y)] = e[i]
    BY <2>2, <2>3
  <2>. HIDE DEF x, y
  <2>6. y = x \o <<e[i]>>
    <3>1. e[i] \in S
      BY <1>1
    <3>. QED
      BY <2>5, <3>1
  <2>. QED
    BY <2>2, <2>4, <2>6 DEF x, y
<1>. QED
  <2>1. s \in Seq(Seq(S))
    BY <1>3 DEF Q
  <2>2. \A i \in 1..Len(s) : g[i - 1] \in Seq(S) /\ g[i] = g[i - 1] \o s[i]
    BY <1>3, <1>6 DEF Q
  <2>3. g[0] = <<>> /\ g[Len(s)] = e
    BY <1>3, <1>5
  <2>. HIDE DEF s
  <2>4. FlattenSeq(s) = g[Len(s)]
    BY <2>1, <2>2, <2>3, FlattenIs
  <2>. QED
    BY <2>3, <2>4 DEF s

(* Of the items of a retrieval, one is not preceded by another: the exact     *)
(* matches, of these the ones of the highest authority, of these the one of    *)
(* the lowest rank.                                                           *)
LEMMA BestExists ==
  ASSUME NEW result, NEW S \in SUBSET Items, S # {}
  PROVE  \E x \in S : \A y \in S : ~Precedes(result, y, x)
<1>. DEFINE exact(x) == result.ranked /\ Exact(x, result.need)
            E == IF \E x \in S : exact(x) THEN {x \in S : exact(x)} ELSE S
            Authorities == {Authority(x.id) : x \in E}
            Ranks(a) == {Info[x.id].rank : x \in {y \in E : Authority(y.id) = a}}
<1>1. E # {} /\ E \subseteq S
  OBVIOUS
<1>2. \A x \in E : Authority(x.id) \in Nat /\ Info[x.id].rank \in Nat
  <2>1. \A x \in E : x.id \in Records
    BY <1>1 DEF Items
  <2>. QED
    BY <2>1, KnowledgeAssumption DEF InfoType, Authority
<1>. HIDE DEF E
<1>3. PICK a \in Authorities : \A b \in Authorities : a <= b
  <2>1. Authorities \in SUBSET Nat /\ Authorities # {}
    BY <1>1, <1>2
  <2>. HIDE DEF Authorities
  <2>. QED
    BY <2>1, LeastNat
<1>4. PICK r \in Ranks(a) : \A s \in Ranks(a) : r <= s
  <2>1. Ranks(a) \in SUBSET Nat /\ Ranks(a) # {}
    BY <1>2, <1>3
  <2>. HIDE DEF Ranks
  <2>. QED
    BY <2>1, LeastNat
<1>5. PICK x \in E : Authority(x.id) = a /\ Info[x.id].rank = r
  BY <1>4
<1>6. ASSUME NEW y \in E
      PROVE  ~Preferred(y, x)
  <2>1. Authority(x.id) <= Authority(y.id)
    BY <1>3, <1>5
  <2>2. Authority(y.id) = Authority(x.id) => Info[x.id].rank <= Info[y.id].rank
    BY <1>4, <1>5
  <2>. QED
    BY <1>2, <1>5, <2>1, <2>2 DEF Preferred
<1>7. ASSUME NEW y \in S
      PROVE  ~Precedes(result, y, x)
  <2>1. CASE ~result.ranked
    BY <1>6, <2>1 DEF Precedes, E
  <2>2. CASE result.ranked
    <3>1. CASE exact(y) = exact(x)
      <4>1. y \in E
        BY <1>5, <3>1 DEF E
      <4>2. Exact(y, result.need) = Exact(x, result.need)
        BY <2>2, <3>1 DEF Exact
      <4>. QED
        BY <1>6, <2>2, <4>1, <4>2 DEF Precedes, Stronger
    <3>2. CASE exact(y) # exact(x)
      <4>1. exact(x) /\ ~exact(y)
        BY <1>5, <3>2 DEF E, Exact
      <4>. QED
        BY <2>2, <4>1 DEF Precedes, Stronger
    <3>. QED
      BY <3>1, <3>2
  <2>. QED
    BY <2>1, <2>2
<1>. QED
  BY <1>1, <1>5, <1>7

(* The walk over the items of a retrieval is defined.                         *)
IsWalk(f, result, start, N) ==
    f = [k \in 0..N |-> IF k = 0 THEN start ELSE TakeBest(result, f[k - 1])]
LEMMA WalkExists ==
  ASSUME NEW result, NEW start, NEW N \in Nat
  PROVE  \E f : IsWalk(f, result, start, N)
<1>. DEFINE Walks(f, m) == f = [k \in 0..m |-> IF k = 0 THEN start ELSE TakeBest(result, f[k - 1])]
            Bad == {m \in Nat : ~\E f : Walks(f, m)}
<1>1. Bad = {}
  <2>. SUFFICES ASSUME Bad # {}
                PROVE  FALSE
    OBVIOUS
  <2>1. PICK m \in Bad : \A k \in Bad : m <= k
    <3>1. Bad \in SUBSET Nat
      OBVIOUS
    <3>. HIDE DEF Bad
    <3>. QED
      BY <3>1, LeastNat
  <2>2. m \in Nat
    OBVIOUS
  <2>3. CASE m = 0
    <3>1. Walks([k \in 0..0 |-> start], 0)
      OBVIOUS
    <3>. QED
      BY <3>1, <2>3
  <2>4. CASE m # 0
    <3>1. m - 1 \in Nat /\ m - 1 \notin Bad
      <4>1. m - 1 \in Nat /\ ~(m <= m - 1)
        BY <2>2, <2>4
      <4>. QED
        BY <2>1, <4>1
    <3>2. PICK f : Walks(f, m - 1)
      BY <3>1
    <3>. DEFINE g == [k \in 0..m |-> IF k = m THEN TakeBest(result, f[m - 1]) ELSE f[k]]
    <3>3. ASSUME NEW k \in 0..(m - 1)
          PROVE  g[k] = f[k]
      <4>1. k \in 0..m /\ k # m
        BY <2>2
      <4>. QED
        BY <4>1
    <3>4. g[m] = TakeBest(result, f[m - 1]) /\ DOMAIN g = 0..m
      BY <2>2
    <3>5. g = [k \in 0..m |-> g[k]]
      OBVIOUS
    <3>. HIDE DEF g
    <3>6. ASSUME NEW k \in 0..m
          PROVE  g[k] = IF k = 0 THEN start ELSE TakeBest(result, g[k - 1])
      <4>1. CASE k = m
        <5>1. m - 1 \in 0..(m - 1)
          BY <2>2, <2>4
        <5>. QED
          BY <2>4, <3>3, <3>4, <4>1, <5>1
      <4>2. CASE k # m
        <5>1. k \in 0..(m - 1) /\ (k # 0 => k - 1 \in 0..(m - 1))
          BY <2>2, <4>2
        <5>. QED
          BY <3>2, <3>3, <5>1
      <4>. QED
        BY <4>1, <4>2
    <3>7. Walks(g, m)
      BY <3>5, <3>6
    <3>. QED
      BY <3>7
  <2>. QED
    BY <2>3, <2>4
<1>. QED
  BY <1>1 DEF IsWalk

(* KnowledgeSelector.select: what is selected are items of the retrieval.     *)
LEMMA SelectIn ==
  ASSUME NEW result, result.items \in SUBSET Items, IsFiniteSet(result.items), NEW budget
  PROVE  Select(result, budget) \in Seq(result.items)
<1>. DEFINE all == Eligible(result)
            N == Cardinality(all)
            start == [left |-> budget, rest |-> all, items |-> <<>>]
            Walks(f) == f = [k \in 0..N |-> IF k = 0 THEN start ELSE TakeBest(result, f[k - 1])]
            walk == CHOOSE f : Walks(f)
            Fine(k) == /\ walk[k].rest \subseteq all /\ IsFiniteSet(walk[k].rest)
                       /\ Cardinality(walk[k].rest) = N - k
                       /\ walk[k].items \in Seq(result.items)
<1>1. all \subseteq result.items /\ all \subseteq Items
  BY DEF Eligible
<1>2. IsFiniteSet(all) /\ N \in Nat
  BY <1>1, FS_Subset, FS_CardinalityType
<1>3. Select(result, budget) = walk[N].items
  BY DEF Select
<1>. HIDE DEF all, N
<1>4. Walks(walk)
  <2>1. \E f : Walks(f)
    <3>. HIDE DEF start
    <3>1. \E f : IsWalk(f, result, start, N)
      BY <1>2, WalkExists
    <3>. QED
      BY <3>1 DEF IsWalk
  <2>. HIDE DEF Walks
  <2>. QED
    BY <2>1
<1>. HIDE DEF walk
<1>5. walk[0] = start /\ \A k \in 1..N : walk[k] = TakeBest(result, walk[k - 1])
  BY <1>2, <1>4
<1>. DEFINE Bad == {k \in 0..N : ~Fine(k)}
<1>6. Bad = {}
  <2>. SUFFICES ASSUME Bad # {}
                PROVE  FALSE
    OBVIOUS
  <2>1. PICK m \in Bad : \A k \in Bad : m <= k
    <3>1. Bad \in SUBSET Nat
      BY <1>2
    <3>. HIDE DEF Bad
    <3>. QED
      BY <3>1, LeastNat
  <2>2. m \in 0..N /\ m \in Nat /\ ~Fine(m)
    BY <1>2
  <2>3. m # 0
    <3>1. Fine(0)
      BY <1>2, <1>5 DEF N
    <3>. QED
      BY <2>2, <3>1
  <2>. DEFINE so == walk[m - 1]
              best == CHOOSE x \in so.rest : \A y \in so.rest : ~Precedes(result, y, x)
  <2>4. Fine(m - 1) /\ m \in 1..N
    <3>1. m - 1 \in 0..N /\ ~(m <= m - 1) /\ m \in 1..N
      BY <1>2, <2>2, <2>3
    <3>. HIDE DEF Fine
    <3>. QED
      BY <2>1, <3>1
  <2>5. so.rest # {} /\ so.rest \in SUBSET Items
    <3>1. Cardinality(so.rest) # 0
      BY <1>2, <2>2, <2>4
    <3>. QED
      BY <1>1, <2>4, <3>1, FS_EmptySet
  <2>6. best \in so.rest
    <3>1. \E x \in so.rest : \A y \in so.rest : ~Precedes(result, y, x)
      <4>. HIDE DEF so
      <4>. QED
        BY <2>5, BestExists
    <3>. QED
      BY <3>1
  <2>7. /\ walk[m].rest = so.rest \ {best}
        /\ walk[m].items \in {so.items, Append(so.items, best)}
    <3>1. walk[m] = TakeBest(result, so)
      BY <1>5, <2>4
    <3>2. /\ TakeBest(result, so).rest = so.rest \ {best}
          /\ TakeBest(result, so).items \in {so.items, Append(so.items, best)}
      <4>. HIDE DEF so
      <4>. QED
        BY DEF TakeBest, TakeIfFits
    <3>. QED
      BY <3>1, <3>2
  <2>. HIDE DEF best, so
  <2>8. so.rest \subseteq all /\ IsFiniteSet(so.rest) /\ Cardinality(so.rest) = N - (m - 1)
        /\ so.items \in Seq(result.items)
    BY <2>4 DEF so
  <2>9. IsFiniteSet(so.rest \ {best}) /\ Cardinality(so.rest \ {best}) = N - m
    <3>1. Cardinality(so.rest \ {best}) = Cardinality(so.rest) - 1 /\ IsFiniteSet(so.rest \ {best})
      BY <2>6, <2>8, FS_RemoveElement
    <3>. QED
      BY <1>2, <2>2, <2>8, <3>1
  <2>10. Append(so.items, best) \in Seq(result.items)
    <3>1. best \in result.items
      BY <1>1, <2>6, <2>8
    <3>2. \A Q : \A q \in Seq(Q), e \in Q : Append(q, e) \in Seq(Q)
      OBVIOUS
    <3>. QED
      BY <2>8, <3>1, <3>2
  <2>11. Fine(m)
    BY <2>7, <2>8, <2>9, <2>10
  <2>. QED
    BY <2>2, <2>11
<1>7. Fine(N)
  <2>1. N \in 0..N
    BY <1>2
  <2>. HIDE DEF Fine
  <2>. QED
    BY <1>6, <2>1
<1>. QED
  BY <1>3, <1>7

LEMMA FirstIn ==
  ASSUME NEW S, NEW s \in Seq(S), NEW n \in Nat
  PROVE  First(s, n) \in Seq(S)
<1>. DEFINE least == Min({n, Len(s)})
<1>1. least \in 0..Len(s)
  <2>1. \E x \in {n, Len(s)} : \A y \in {n, Len(s)} : x <= y
    OBVIOUS
  <2>2. least \in {n, Len(s)} /\ \A y \in {n, Len(s)} : least <= y
    BY <2>1 DEF Min
  <2>. HIDE DEF least
  <2>. QED
    BY <2>2
<1>. HIDE DEF least
<1>2. SubSeq(s, 1, least) \in Seq(S)
  BY <1>1
<1>. QED
  BY <1>2 DEF First, least

(* One version of a pack and the live sources' are finitely many items.       *)
LEMMA GenuineAreFinite ==
  ASSUME PacksFit, NEW S \in SUBSET Items,
         \A x \in S : x.source = "pack" => loaded # NoPack /\ <<x.id, x.version>> \in loaded.records,
         \A x \in S : x.source # "pack" => x.version = 0
  PROVE  IsFiniteSet(S)
<1>1. PICK v : loaded # NoPack => loaded.records = Records \X {v}
  <2>1. CASE loaded # NoPack
    <3>1. loaded.records = loaded.inventory /\ Identity(loaded) \in published
      BY <2>1 DEF PacksFit, Verified
    <3>2. Identity(loaded).inventory = loaded.inventory
      BY DEF Identity
    <3>. QED
      BY <3>1, <3>2 DEF PacksFit
  <2>. QED
    BY <2>1
<1>. DEFINE T == ((Families \cup {"pack"}) \X Records) \X {0, v}
            f == [x \in S |-> <<<<x.source, x.id>>, x.version>>]
<1>2. IsFiniteSet(T)
  <2>1. IsFiniteSet(Families \cup {"pack"}) /\ IsFiniteSet({0, v})
    <3>1. Families \cup {"pack"} = {"docs"} \cup {"api"} \cup {"yarn"} \cup {"pack"} /\ {0, v} = {0} \cup {v}
      BY DEF Families
    <3>2. \A a : IsFiniteSet({a})
      BY FS_Singleton
    <3>3. IsFiniteSet({0} \cup {v}) /\ IsFiniteSet({"docs"} \cup {"api"})
      BY <3>2, FS_Union
    <3>4. IsFiniteSet({"docs"} \cup {"api"} \cup {"yarn"})
      BY <3>2, <3>3, FS_Union
    <3>5. IsFiniteSet({"docs"} \cup {"api"} \cup {"yarn"} \cup {"pack"})
      BY <3>2, <3>4, FS_Union
    <3>. QED
      BY <3>1, <3>3, <3>5
  <2>2. IsFiniteSet((Families \cup {"pack"}) \X Records)
    BY <2>1, KnowledgeAssumption, FS_Product
  <2>. QED
    BY <2>1, <2>2, FS_Product
<1>3. \A x \in S : x.source \in Families \cup {"pack"} /\ x.id \in Records /\ x.version \in {0, v}
  BY <1>1 DEF Items
<1>4. f \in [S -> T]
  BY <1>3
<1>5. \A x, y \in S : f[x] = f[y] => x = y
  BY DEF Items
<1>. HIDE DEF f, T
<1>6. f \in Injection(S, T)
  BY <1>4, <1>5 DEF Injection, IsInjective
<1>. QED
  BY <1>2, <1>6, FS_Injection

(* KnowledgeService.resolve, load_frozen_knowledge_pack: what a source of the *)
(* service answers are items of the pack, or of a live source that serves the *)
(* environment.                                                               *)
LEMMA OfferedFits ==
  ASSUME PacksFit, NEW i \in DOMAIN service, NEW need, NEW e, NEW able
  PROVE  /\ Offered(service[i], need, e, able) \in SUBSET Items
         /\ \A x \in Offered(service[i], need, e, able) : Genuine(x, e)
         /\ \A x \in Offered(service[i], need, e, able) : x.source # "pack" => x.version = 0
<1>. DEFINE source == service[i]
<1>1. source \in Families \cup {"pack"} /\ (source = "pack" => loaded # NoPack /\ loaded \in Packs)
  <2>1. i \in 1..Len(service) /\ service \in Seq(Families \cup {"pack"})
    BY DEF PacksFit
  <2>. QED
    BY <2>1 DEF PacksFit
<1>. HIDE DEF source
<1>2. ASSUME NEW x \in Offered(source, need, e, able)
      PROVE  x \in Items /\ Genuine(x, e) /\ (x.source # "pack" => x.version = 0)
  <2>1. CASE source = "pack"
    <3>1. EnvironmentMatches(loaded.env, e) /\ x \in PackAnswer(need)
      BY <1>2, <2>1 DEF Offered
    <3>2. PICK y \in loaded.records : x = Item("pack", y[1], y[2])
      BY <3>1 DEF PackAnswer, Foremost
    <3>3. loaded.records \subseteq Records \X Versions
      BY <1>1, <2>1 DEF Packs
    <3>4. x.source = "pack" /\ x.id = y[1] /\ x.version = y[2] /\ x \in Items /\ y = <<y[1], y[2]>>
      BY <3>2, <3>3 DEF Item, Items
    <3>. QED
      BY <1>1, <2>1, <3>1, <3>2, <3>4 DEF Genuine
  <2>2. CASE source # "pack"
    <3>1. EnvironmentMatches(Pins[source], e) /\ x \in LiveAnswer(source, need)
      BY <1>2, <2>2 DEF Offered, CanServe
    <3>2. PICK r \in Records : x = Item(source, r, 0)
      BY <3>1 DEF LiveAnswer
    <3>3. x.source = source /\ x.id = r /\ x.version = 0 /\ x \in Items
      BY <1>1, <2>2, <3>2 DEF Item, Items
    <3>. QED
      BY <2>2, <3>1, <3>3 DEF Genuine
  <2>. QED
    BY <2>1, <2>2
<1>. QED
  BY <1>2 DEF source

(* The retrievals of the product, of the benchmark (MinecraftBrain.retrieve)  *)
(* and for a failure (retrieve_ranked).                                       *)
LEMMA ResolveFits ==
  ASSUME PacksFit, NEW need \in NeedType, need.name \in NeedNames, NEW e
  PROVE  Resolve(need, e) \in Retrievals /\ Fits(Resolve(need, e), e)
<1>. DEFINE items == UNION {Offered(service[i], need, e, held) : i \in DOMAIN service}
<1>1. \A x \in items : x \in Items /\ Genuine(x, e) /\ (x.source # "pack" => x.version = 0)
  BY OfferedFits
<1>2. Resolve(need, e) = [need |-> need, ranked |-> FALSE, conflicted |-> {}, items |-> items]
  BY DEF Resolve, Plain
<1>. HIDE DEF items
<1>3. IsFiniteSet(items)
  <2>1. items \in SUBSET Items
    BY <1>1
  <2>. QED
    BY <1>1, <2>1, GenuineAreFinite DEF Genuine
<1>. QED
  BY <1>1, <1>2, <1>3 DEF Retrievals, Fits

LEMMA RetrieveFits ==
  ASSUME PacksFit, service # <<>>, NEW need \in NeedType, need.name \in NeedNames,
         NEW e, NEW offline, NEW able
  PROVE  Retrieve(need, e, offline, able) \in Retrievals /\ Fits(Retrieve(need, e, offline, able), e)
<1>. DEFINE items == IF offline THEN {} ELSE Offered(service[1], need, e, able)
<1>1. 1 \in DOMAIN service
  BY DEF PacksFit
<1>2. \A x \in items : x \in Items /\ Genuine(x, e) /\ (x.source # "pack" => x.version = 0)
  BY <1>1, OfferedFits
<1>3. Retrieve(need, e, offline, able) =
         [need |-> need, ranked |-> FALSE, conflicted |-> {}, items |-> items]
  BY DEF Retrieve, Plain
<1>. HIDE DEF items
<1>4. IsFiniteSet(items)
  <2>1. items \in SUBSET Items
    BY <1>2
  <2>. QED
    BY <1>2, <2>1, GenuineAreFinite DEF Genuine
<1>. QED
  BY <1>2, <1>3, <1>4 DEF Retrievals, Fits

LEMMA ResolveRankedFits ==
  ASSUME PacksFit, service # <<>>, NEW need \in NeedType, need.name \in NeedNames, NEW e
  PROVE  /\ ResolveRanked(service[1], need, e) \in Retrievals
         /\ Fits(ResolveRanked(service[1], need, e), e)
<1>. DEFINE result == ResolveRanked(service[1], need, e)
<1>1. 1 \in DOMAIN service
  BY DEF PacksFit
<1>. DEFINE offered == Offered(service[1], need, e, held)
<1>2. \A x \in offered : x \in Items /\ Genuine(x, e) /\ (x.source # "pack" => x.version = 0)
  BY <1>1, OfferedFits
<1>. HIDE DEF offered
<1>3. /\ result.items \subseteq offered /\ result.conflicted \subseteq offered
      /\ result = [need |-> need, ranked |-> TRUE, conflicted |-> result.conflicted,
                   items |-> result.items]
  BY DEF ResolveRanked, RankedResult, Foremost, offered
<1>. HIDE DEF result
<1>4. IsFiniteSet(result.items)
  <2>1. result.items \in SUBSET Items
    BY <1>2, <1>3
  <2>2. \A x \in result.items : Genuine(x, e) /\ (x.source # "pack" => x.version = 0)
    BY <1>2, <1>3
  <2>. QED
    BY <2>1, <2>2, GenuineAreFinite DEF Genuine
<1>5. result.need = need /\ result \in Retrievals
  <2>. DEFINE a == result.items
              b == result.conflicted
  <2>1. a \in SUBSET Items /\ b \in SUBSET Items
    BY <1>2, <1>3
  <2>2. result = [need |-> need, ranked |-> TRUE, conflicted |-> b, items |-> a]
    BY <1>3
  <2>. HIDE DEF a, b
  <2>. QED
    BY <2>1, <2>2 DEF Retrievals
<1>6. Fits(result, e)
  BY <1>2, <1>3, <1>4, <1>5 DEF Fits
<1>. QED
  BY <1>5, <1>6 DEF result

(* KnowledgeContextSource.get serves the retrievals it was given.             *)
LEMMA OrderedIn ==
  ASSUME NEW S, NEW inputs \in Seq(S)
  PROVE  Ordered(inputs) \in Seq(S)
<1>. DEFINE Those(urgent) == [i \in DOMAIN inputs |->
                                 IF inputs[i].need.urgent = urgent THEN <<inputs[i]>> ELSE <<>>]
<1>1. ASSUME NEW urgent
      PROVE  Those(urgent) \in Seq(Seq(S))
  <2>1. \A i \in 1..Len(inputs) : <<inputs[i]>> \in Seq(S) /\ <<>> \in Seq(S)
    OBVIOUS
  <2>2. DOMAIN inputs = 1..Len(inputs) /\ Len(inputs) \in Nat
    OBVIOUS
  <2>. QED
    BY <2>1, <2>2
<1>2. Those(TRUE) \in Seq(Seq(S)) /\ Those(FALSE) \in Seq(Seq(S))
  BY <1>1
<1>3. Ordered(inputs) = FlattenSeq(Those(TRUE) \o Those(FALSE))
  BY DEF Ordered
<1>. HIDE DEF Those
<1>4. Those(TRUE) \o Those(FALSE) \in Seq(Seq(S))
  <2>1. \A Q : \A a, b \in Seq(Q) : a \o b \in Seq(Q)
    OBVIOUS
  <2>. QED
    BY <1>2, <2>1
<1>. QED
  BY <1>3, <1>4, FlattenIn

(* The rounds over the retrievals are defined.                                *)
IsServing(f, served, start, N) ==
    f = [k \in 0..N |-> IF k = 0 THEN start ELSE Serve(served[k], f[k - 1])]
LEMMA ServingExists ==
  ASSUME NEW served, NEW start, NEW N \in Nat
  PROVE  \E f : IsServing(f, served, start, N)
<1>. DEFINE Serves(f, m) == f = [k \in 0..m |-> IF k = 0 THEN start ELSE Serve(served[k], f[k - 1])]
            Bad == {m \in Nat : ~\E f : Serves(f, m)}
<1>1. Bad = {}
  <2>. SUFFICES ASSUME Bad # {}
                PROVE  FALSE
    OBVIOUS
  <2>1. PICK m \in Bad : \A k \in Bad : m <= k
    <3>1. Bad \in SUBSET Nat
      OBVIOUS
    <3>. HIDE DEF Bad
    <3>. QED
      BY <3>1, LeastNat
  <2>2. m \in Nat
    OBVIOUS
  <2>3. CASE m = 0
    <3>1. Serves([k \in 0..0 |-> start], 0)
      OBVIOUS
    <3>. QED
      BY <3>1, <2>3
  <2>4. CASE m # 0
    <3>1. m - 1 \in Nat /\ m - 1 \notin Bad
      <4>1. m - 1 \in Nat /\ ~(m <= m - 1)
        BY <2>2, <2>4
      <4>. QED
        BY <2>1, <4>1
    <3>2. PICK f : Serves(f, m - 1)
      BY <3>1
    <3>. DEFINE g == [k \in 0..m |-> IF k = m THEN Serve(served[m], f[m - 1]) ELSE f[k]]
    <3>3. ASSUME NEW k \in 0..(m - 1)
          PROVE  g[k] = f[k]
      <4>1. k \in 0..m /\ k # m
        BY <2>2
      <4>. QED
        BY <4>1
    <3>4. g[m] = Serve(served[m], f[m - 1]) /\ DOMAIN g = 0..m
      BY <2>2
    <3>5. g = [k \in 0..m |-> g[k]]
      OBVIOUS
    <3>. HIDE DEF g
    <3>6. ASSUME NEW k \in 0..m
          PROVE  g[k] = IF k = 0 THEN start ELSE Serve(served[k], g[k - 1])
      <4>1. CASE k = m
        <5>1. m - 1 \in 0..(m - 1)
          BY <2>2, <2>4
        <5>. QED
          BY <2>4, <3>3, <3>4, <4>1, <5>1
      <4>2. CASE k # m
        <5>1. k \in 0..(m - 1) /\ (k # 0 => k - 1 \in 0..(m - 1))
          BY <2>2, <4>2
        <5>. QED
          BY <3>2, <3>3, <5>1
      <4>. QED
        BY <4>1, <4>2
    <3>7. Serves(g, m)
      BY <3>5, <3>6
    <3>. QED
      BY <3>7
  <2>. QED
    BY <2>3, <2>4
<1>. QED
  BY <1>1 DEF IsServing

(* A round serves one retrieval with items of its own, and changes nothing of *)
(* what was kept of the ones before.                                          *)
RoundStart == [left |-> Min({KnowledgeBytes, ContextBytes}), chosen |-> <<>>, kept |-> <<>>]
Filled(s, served, k) ==
    /\ s \in Seq(Seq(Items)) /\ Len(s) = k
    /\ \A j \in 1..k : s[j] \in Seq(served[j].items)
LEMMA RoundsFill ==
  ASSUME NEW served, NEW N \in Nat, NEW rounds, IsServing(rounds, served, RoundStart, N),
         \A k \in 1..N : served[k].items \in SUBSET Items /\ IsFiniteSet(served[k].items)
  PROVE  \A k \in 0..N :
            /\ Filled(rounds[k].chosen, served, k) /\ Filled(rounds[k].kept, served, k)
            /\ \A j \in 1..k : rounds[k].kept[j] = rounds[j].kept[j]
<1>5. rounds[0] = RoundStart /\ \A k \in 1..N : rounds[k] = Serve(served[k], rounds[k - 1])
  BY DEF IsServing
<1>. DEFINE Full(s, k) ==
               /\ s \in Seq(Seq(Items)) /\ Len(s) = k
               /\ \A j \in 1..k : s[j] \in Seq(served[j].items)
            Old(k) == \A j \in 1..k : rounds[k].kept[j] = rounds[j].kept[j]
            Bad == {k \in 0..N : ~(Full(rounds[k].chosen, k) /\ Full(rounds[k].kept, k) /\ Old(k))}
<1>6. ASSUME NEW k \in 1..N, NEW s, Full(s, k - 1), NEW a \in Seq(served[k].items)
      PROVE  Full(Append(s, a), k)
  <2>1. k \in Nat /\ k - 1 \in Nat
    OBVIOUS
  <2>2. a \in Seq(Items)
    <3>1. served[k].items \in SUBSET Items
      OBVIOUS
    <3>2. \A P, Q : \A q \in Seq(P) : P \subseteq Q => q \in Seq(Q)
      OBVIOUS
    <3>. QED
      BY <3>1, <3>2
  <2>3. /\ Append(s, a) \in Seq(Seq(Items)) /\ Len(Append(s, a)) = k
        /\ Append(s, a)[k] = a
    BY <1>6, <2>1, <2>2
  <2>4. \A j \in 1..(k - 1) : Append(s, a)[j] = s[j]
    BY <1>6, <2>1
  <2>5. ASSUME NEW j \in 1..k
        PROVE  Append(s, a)[j] \in Seq(served[j].items)
    <3>1. CASE j = k
      BY <1>6, <2>3, <3>1
    <3>2. CASE j # k
      <4>1. j \in 1..(k - 1)
        BY <2>1, <3>2
      <4>. QED
        BY <1>6, <2>4, <4>1
    <3>. QED
      BY <3>1, <3>2
  <2>. QED
    BY <2>3, <2>5
<1>7. Bad = {}
  <2>. SUFFICES ASSUME Bad # {}
                PROVE  FALSE
    OBVIOUS
  <2>1. PICK m \in Bad : \A k \in Bad : m <= k
    <3>1. Bad \in SUBSET Nat
      OBVIOUS
    <3>. HIDE DEF Bad
    <3>. QED
      BY <3>1, LeastNat
  <2>2. m \in 0..N /\ m \in Nat
        /\ ~(Full(rounds[m].chosen, m) /\ Full(rounds[m].kept, m) /\ Old(m))
    OBVIOUS
  <2>3. m # 0
    <3>1. Full(<<>>, 0)
      OBVIOUS
    <3>2. rounds[0].chosen = <<>> /\ rounds[0].kept = <<>> /\ Old(0)
      BY <1>5 DEF RoundStart
    <3>. HIDE DEF Full, Old
    <3>. QED
      BY <2>2, <3>1, <3>2
  <2>. DEFINE so == rounds[m - 1]
              chosen == Select(served[m], so.left)
              kept == First(chosen, MaxItems)
  <2>4. m \in 1..N /\ Full(so.chosen, m - 1) /\ Full(so.kept, m - 1) /\ Old(m - 1)
    <3>1. m - 1 \in 0..N /\ ~(m <= m - 1) /\ m \in 1..N
      BY <2>2, <2>3
    <3>. HIDE DEF Full, Old
    <3>. QED
      BY <2>1, <3>1
  <2>5. /\ rounds[m].chosen = Append(so.chosen, chosen)
        /\ rounds[m].kept = Append(so.kept, kept)
    <3>1. rounds[m] = Serve(served[m], so)
      BY <1>5, <2>4
    <3>2. /\ Serve(served[m], so).chosen = Append(so.chosen, chosen)
          /\ Serve(served[m], so).kept = Append(so.kept, kept)
      <4>. HIDE DEF so
      <4>. QED
        BY DEF Serve
    <3>. HIDE DEF chosen, kept
    <3>. QED
      BY <3>1, <3>2
  <2>. HIDE DEF so
  <2>6. chosen \in Seq(served[m].items)
    <3>1. served[m].items \in SUBSET Items /\ IsFiniteSet(served[m].items)
      BY <2>4
    <3>. QED
      BY <3>1, SelectIn
  <2>7. kept \in Seq(served[m].items)
    <3>1. MaxItems \in Nat
      BY KnowledgeAssumption
    <3>. HIDE DEF chosen
    <3>. QED
      BY <2>6, <3>1, FirstIn
  <2>8. \A j \in 1..(m - 1) : rounds[m].kept[j] = so.kept[j]
    <3>. HIDE DEF chosen, kept
    <3>. QED
      BY <2>2, <2>4, <2>5
  <2>9. Old(m)
    <3>1. ASSUME NEW j \in 1..m
          PROVE  rounds[m].kept[j] = rounds[j].kept[j]
      <4>1. CASE j = m
        BY <4>1
      <4>2. CASE j # m
        <5>1. j \in 1..(m - 1)
          BY <2>2, <4>2
        <5>. QED
          BY <2>4, <2>8, <5>1 DEF so
      <4>. QED
        BY <4>1, <4>2
    <3>. QED
      BY <3>1
  <2>. HIDE DEF chosen, kept, Full, Old
  <2>10. Full(rounds[m].chosen, m) /\ Full(rounds[m].kept, m)
    BY <1>6, <2>4, <2>5, <2>6, <2>7
  <2>. QED
    BY <2>2, <2>9, <2>10
<1>. QED
  BY <1>7 DEF Filled

(* KnowledgeContextSource.get: every item given is an item of a retrieval, and *)
(* the trace of that retrieval's need has it in the context.                  *)
LEMMA GetFits ==
  ASSUME NEW inputs \in Seq(Retrievals), NEW e, \A i \in DOMAIN inputs : Fits(inputs[i], e)
  PROVE  /\ Get(inputs).given \in Seq(Givens) /\ Get(inputs).traces \in Seq(Traces)
         /\ \A i \in DOMAIN Get(inputs).given :
               LET g == Get(inputs).given[i]
               IN  /\ g.need \in NeedNames /\ Genuine(g.item, e)
                   /\ \E j \in DOMAIN Get(inputs).traces :
                         /\ Get(inputs).traces[j].need = g.need
                         /\ g.item.id \in Get(inputs).traces[j].context
<1>. DEFINE R == {r \in Retrievals : Fits(r, e)}
            served == Ordered(inputs)
            N == Len(served)
            start == [left |-> Min({KnowledgeBytes, ContextBytes}), chosen |-> <<>>, kept |-> <<>>]
            rounds == CHOOSE f : f = [k \in 0..N |-> IF k = 0 THEN start ELSE Serve(served[k], f[k - 1])]
            end == rounds[N]
            noted(k) == Trace(served[k].need, end.chosen[k], end.kept[k])
            parts == [k \in DOMAIN served |-> Given(served[k].need, end.kept[k])]
<1>1. served \in Seq(R)
  <2>1. \A i \in DOMAIN inputs : inputs[i] \in R
    OBVIOUS
  <2>2. inputs \in Seq(R)
    BY <2>1
  <2>. QED
    BY <2>2, OrderedIn
<1>2. /\ N \in Nat /\ DOMAIN served = 1..N
      /\ \A k \in 1..N : served[k] \in Retrievals /\ Fits(served[k], e)
  BY <1>1
<1>3. Get(inputs) = [given |-> FlattenSeq(parts), traces |-> [k \in DOMAIN served |-> noted(k)]]
  BY DEF Get
<1>. HIDE DEF served, N
<1>4. IsServing(rounds, served, RoundStart, N)
  <2>1. \E f : IsServing(f, served, start, N)
    <3>. HIDE DEF start
    <3>. QED
      BY <1>2, ServingExists
  <2>. QED
    BY <2>1 DEF IsServing, RoundStart
<1>. HIDE DEF rounds
<1>6. N \in 0..N
  BY <1>2
<1>7. \A k \in 1..N : served[k].items \in SUBSET Items /\ IsFiniteSet(served[k].items)
  BY <1>2 DEF Retrievals, Fits
<1>8. Filled(end.chosen, served, N) /\ Filled(end.kept, served, N)
  BY <1>2, <1>4, <1>6, <1>7, RoundsFill
<1>9. \A k \in 1..N :
         /\ served[k].need \in NeedType /\ served[k].need.name \in NeedNames
         /\ served[k].items \in SUBSET Items /\ \A x \in served[k].items : Genuine(x, e)
         /\ end.chosen[k] \in Seq(served[k].items) /\ end.kept[k] \in Seq(served[k].items)
  BY <1>2, <1>8 DEF Retrievals, Fits, Filled
<1>. HIDE DEF end
<1>10. ASSUME NEW k \in 1..N
       PROVE  /\ noted(k) \in Traces /\ noted(k).need = served[k].need.name
              /\ noted(k).context = {end.kept[k][i].id : i \in DOMAIN end.kept[k]}
  <2>1. ASSUME NEW s \in Seq(served[k].items)
        PROVE  Ids(ToSet(s)) = {s[i].id : i \in DOMAIN s} /\ Ids(ToSet(s)) \in SUBSET Records
    <3>1. \A i \in DOMAIN s : s[i] \in Items
      BY <1>9, <2>1
    <3>2. Ids(ToSet(s)) = {s[i].id : i \in DOMAIN s}
      BY DEF Ids, ToSet
    <3>. QED
      BY <3>1, <3>2 DEF Items
  <2>2. served[k].need.name \in STRING
    BY <1>9 DEF NeedType
  <2>. QED
    BY <1>9, <2>1, <2>2 DEF Trace, Traces
<1>. DEFINE D == {g \in Givens :
                     /\ g.need \in NeedNames /\ Genuine(g.item, e)
                     /\ \E j \in 1..N : noted(j).need = g.need /\ g.item.id \in noted(j).context}
<1>11. ASSUME NEW k \in 1..N
       PROVE  parts[k] \in Seq(D)
  <2>. DEFINE kept == end.kept[k]
  <2>1. kept \in Seq(served[k].items) /\ parts[k] = Given(served[k].need, kept)
    BY <1>2, <1>9
  <2>2. Len(kept) \in Nat /\ DOMAIN kept = 1..Len(kept)
    BY <2>1
  <2>. HIDE DEF kept
  <2>3. Given(served[k].need, kept) =
          [i \in 1..Len(kept) |-> [need |-> served[k].need.name, urgent |-> served[k].need.urgent,
                                   item |-> kept[i]]]
    BY <2>2 DEF Given
  <2>4. ASSUME NEW i \in 1..Len(kept)
        PROVE  [need |-> served[k].need.name, urgent |-> served[k].need.urgent,
                item |-> kept[i]] \in D
    <3>1. kept[i] \in served[k].items /\ kept[i] \in Items /\ Genuine(kept[i], e)
      BY <1>9, <2>1
    <3>2. kept[i].id \in noted(k).context /\ noted(k).need = served[k].need.name
      BY <1>10, <2>2 DEF kept
    <3>3. served[k].need.name \in STRING /\ served[k].need.urgent \in BOOLEAN
          /\ served[k].need.name \in NeedNames
      BY <1>9 DEF NeedType
    <3>. HIDE DEF trace
    <3>. QED
      BY <3>1, <3>2, <3>3 DEF Givens
  <2>. HIDE DEF D, parts
  <2>5. parts[k] \in [1..Len(kept) -> D]
    BY <2>1, <2>3, <2>4
  <2>6. \A n \in Nat : \A h \in [1..n -> D] : h \in Seq(D)
    OBVIOUS
  <2>. QED
    BY <2>2, <2>5, <2>6
<1>12. Get(inputs).given \in Seq(D)
  <2>1. parts \in Seq(Seq(D))
    <3>1. parts = [k \in 1..N |-> parts[k]]
      BY <1>2
    <3>. HIDE DEF parts, D
    <3>. QED
      BY <1>2, <1>11, <3>1
  <2>2. FlattenSeq(parts) \in Seq(D)
    <3>. HIDE DEF parts, D
    <3>. QED
      BY <2>1, FlattenIn
  <2>. QED
    BY <1>3, <2>2
<1>13. /\ Get(inputs).traces \in Seq(Traces) /\ DOMAIN Get(inputs).traces = 1..N
       /\ \A k \in 1..N : Get(inputs).traces[k] = noted(k)
  <2>1. Get(inputs).traces = [k \in 1..N |-> noted(k)]
    BY <1>2, <1>3
  <2>. HIDE DEF trace
  <2>. QED
    BY <1>2, <1>10, <2>1
<1>. HIDE DEF trace
<1>14. D \subseteq Givens /\ \A g \in D :
          /\ g.need \in NeedNames /\ Genuine(g.item, e)
          /\ \E j \in 1..N : noted(j).need = g.need /\ g.item.id \in noted(j).context
  OBVIOUS
<1>. HIDE DEF D
<1>15. Get(inputs).given \in Seq(Givens) /\ \A i \in DOMAIN Get(inputs).given : Get(inputs).given[i] \in D
  BY <1>12, <1>14
<1>. QED
  BY <1>13, <1>14, <1>15

-----------------------------------------------------------------------------
(* Knowledge: the invariant.                                                  *)

LEMMA KnowledgeStarts == KnowledgeInit => KnowledgeIInv
<1>. SUFFICES ASSUME KnowledgeInit
              PROVE  KnowledgeIInv
  OBVIOUS
<1>1. PacksFit
  BY DEF KnowledgeInit, PacksFit
<1>2. RetrievalsFit
  BY DEF KnowledgeInit, RetrievalsFit
<1>3. ContextFits
  BY DEF KnowledgeInit, ContextFits, NoContext
<1>4. LedgerFits
  BY DEF KnowledgeInit, LedgerFits, NoTraces
<1>5. SentFits
  BY DEF KnowledgeInit, SentFits, Phases
<1>. QED
  BY <1>1, <1>2, <1>3, <1>4, <1>5 DEF KnowledgeIInv

(* A part of the invariant stays while what it speaks of does.                *)
LEMMA GenuineKept ==
  ASSUME UNCHANGED loaded, NEW x, NEW e
  PROVE  Genuine(x, e)' <=> Genuine(x, e)
BY DEF Genuine

LEMMA PacksKept ==
  ASSUME PacksFit, UNCHANGED <<store, published, product>>
  PROVE  PacksFit'
BY DEF PacksFit, product

LEMMA RetrievalsKept ==
  ASSUME RetrievalsFit, UNCHANGED <<external, repairs, loaded, env>>,
         phase' = "down" => phase = "down"
  PROVE  RetrievalsFit'
<1>1. \A x, e : Genuine(x, e)' <=> Genuine(x, e)
  BY GenuineKept
<1>2. \A r, e : Fits(r, e)' <=> Fits(r, e)
  BY <1>1 DEF Fits
<1>. QED
  BY <1>2 DEF RetrievalsFit

LEMMA ContextKept ==
  ASSUME ContextFits, UNCHANGED <<context, traces, loaded, env, turn>>,
         phase' \in {"down", "ready"} => phase \in {"down", "ready"},
         phase' = "built" => phase = "built"
  PROVE  ContextFits'
<1>1. \A x, e : Genuine(x, e)' <=> Genuine(x, e)
  BY GenuineKept
<1>. QED
  BY <1>1 DEF ContextFits

(* The knowledge packs on disk change: the loaded one does not.               *)
LEMMA MaterializeStep ==
  ASSUME PacksFit, NEW p \in Places, NEW e \in PackEnvs, NEW v \in Versions, Materialize(p, e, v)
  PROVE  PacksFit'
<1>. DEFINE pack == FrozenPack(e, v)
<1>1. /\ store' = [store EXCEPT ![p] = pack] /\ published' = published \cup {Identity(pack)}
      /\ UNCHANGED product
  BY DEF Materialize
<1>2. pack \in Packs /\ Identity(pack).inventory = Records \X {v}
  BY DEF FrozenPack, Packs, Identity
<1>. HIDE DEF pack
<1>3. store' \in [Places -> Packs \cup {NoPack}]
  BY <1>1, <1>2 DEF PacksFit
<1>4. \A q \in Places : store'[q] # NoPack => Identity(store'[q]) \in published'
  BY <1>1 DEF PacksFit
<1>5. \A id \in published' : \E w \in Versions : id.inventory = Records \X {w}
  BY <1>1, <1>2 DEF PacksFit
<1>. QED
  BY <1>1, <1>3, <1>4, <1>5 DEF PacksFit, product

LEMMA SupersedeStep ==
  ASSUME PacksFit, NEW p \in Places, NEW q \in Places, Supersede(p, q)
  PROVE  PacksFit'
<1>. DEFINE pack == [store[p] EXCEPT !.state = "SUPERSEDED"]
<1>1. store[p] \in Packs /\ Identity(store[p]) \in published
  BY DEF PacksFit, Supersede
<1>2. pack \in Packs /\ Identity(pack) = Identity(store[p])
  BY <1>1 DEF Packs, Identity
<1>3. store' = [store EXCEPT ![q] = pack] /\ UNCHANGED <<published, product>>
  BY DEF Supersede
<1>. HIDE DEF pack
<1>4. store' \in [Places -> Packs \cup {NoPack}]
  BY <1>2, <1>3 DEF PacksFit
<1>5. \A r \in Places : store'[r] # NoPack => Identity(store'[r]) \in published'
  BY <1>1, <1>2, <1>3 DEF PacksFit
<1>. QED
  BY <1>3, <1>4, <1>5 DEF PacksFit, product

LEMMA DamageStep ==
  ASSUME PacksFit, NEW p \in Places, NEW r \in Damaged, NEW v \in Versions, Damage(p, r, v)
  PROVE  PacksFit'
<1>1. PICK c \in {{}, {<<r, v>>}} :
         store' = [store EXCEPT ![p].records = {x \in @ : x[1] # r} \cup c]
  BY DEF Damage
<1>. DEFINE records == {x \in store[p].records : x[1] # r} \cup c
            pack == [store[p] EXCEPT !.records = records]
<1>2. store[p] \in Packs /\ Identity(store[p]) \in published /\ UNCHANGED <<published, product>>
  BY DEF PacksFit, Damage
<1>3. records \in SUBSET (Records \X Versions)
  <2>1. r \in Records /\ store[p].records \in SUBSET (Records \X Versions)
    BY <1>2, KnowledgeAssumption DEF Packs
  <2>. QED
    BY <2>1
<1>4. store' = [store EXCEPT ![p] = pack]
  BY <1>1, <1>2 DEF PacksFit
<1>. HIDE DEF records
<1>5. pack \in Packs /\ Identity(pack) = Identity(store[p])
  BY <1>2, <1>3 DEF Packs, Identity
<1>. HIDE DEF pack
<1>6. store' \in [Places -> Packs \cup {NoPack}]
  BY <1>4, <1>5 DEF PacksFit
<1>7. \A q \in Places : store'[q] # NoPack => Identity(store'[q]) \in published'
  BY <1>2, <1>4, <1>5 DEF PacksFit
<1>. QED
  BY <1>2, <1>6, <1>7 DEF PacksFit, product

LEMMA StoreStep ==
  ASSUME KnowledgeIInv, PacksFit',
         UNCHANGED <<phase, product, task, repair, turn, context, traces, trace, sent>>
  PROVE  KnowledgeIInv'
<1>1. RetrievalsFit'
  BY RetrievalsKept DEF KnowledgeIInv, product, task, repair
<1>2. ContextFits'
  BY ContextKept DEF KnowledgeIInv, product, task
<1>3. LedgerFits'
  BY DEF KnowledgeIInv, LedgerFits, trace, product, Backed
<1>4. SentFits'
  BY DEF KnowledgeIInv, SentFits, trace, product, Backed
<1>. QED
  BY <1>1, <1>2, <1>3, <1>4 DEF KnowledgeIInv

(* load_frozen_knowledge_pack; what a stopped application had retrieved is    *)
(* gone.                                                                      *)
LEMMA StartStep ==
  ASSUME KnowledgeIInv, phase = "down", phase' = "ready", PacksFit',
         UNCHANGED <<disk, host, task, repair, turn, context, traces, trace, sent>>
  PROVE  KnowledgeIInv'
<1>1. external = <<>> /\ repairs = <<>> /\ context.given = <<>>
  BY DEF KnowledgeIInv, RetrievalsFit, ContextFits
<1>2. RetrievalsFit'
  BY <1>1 DEF KnowledgeIInv, RetrievalsFit, task, repair
<1>3. ContextFits'
  BY <1>1 DEF KnowledgeIInv, ContextFits
<1>4. LedgerFits'
  BY DEF KnowledgeIInv, LedgerFits, trace
<1>5. SentFits'
  BY DEF KnowledgeIInv, SentFits, trace, Backed, Phases
<1>. QED
  BY <1>2, <1>3, <1>4, <1>5 DEF KnowledgeIInv

LEMMA StartWithPackStep ==
  ASSUME KnowledgeIInv, NEW p \in Places, NEW wanted, StartWithPack(p, wanted)
  PROVE  KnowledgeIInv'
<1>1. PacksFit'
  <2>1. /\ loaded' = store[p] /\ pin' = wanted /\ service' = <<"pack">> /\ UNCHANGED disk
        /\ store[p] # NoPack /\ Verified(store[p]) /\ wanted \in {NoPack, Identity(store[p])}
    BY DEF StartWithPack, Load
  <2>2. store[p] \in Packs /\ Identity(store[p]) \in published
    BY <2>1 DEF KnowledgeIInv, PacksFit
  <2>3. <<"pack">> \in Seq(Families \cup {"pack"})
    OBVIOUS
  <2>. QED
    BY <2>1, <2>2, <2>3 DEF KnowledgeIInv, PacksFit, disk
<1>. QED
  BY <1>1, StartStep DEF StartWithPack

LEMMA StartWithServiceStep ==
  ASSUME KnowledgeIInv, NEW s \in Services, StartWithService(s)
  PROVE  KnowledgeIInv'
<1>1. PacksFit'
  <2>1. loaded' = NoPack /\ service' = s /\ UNCHANGED disk
    BY DEF StartWithService
  <2>2. s \in Seq(Families)
    BY KnowledgeAssumption
  <2>3. s \in Seq(Families \cup {"pack"}) /\ \A i \in DOMAIN s : s[i] # "pack"
    BY <2>2 DEF Families
  <2>. QED
    BY <2>1, <2>3 DEF KnowledgeIInv, PacksFit, disk
<1>. QED
  BY <1>1, StartStep DEF StartWithService

(* A run starts with what is retrieved for the needs of its task, in its      *)
(* environment.                                                               *)
LEMMA StartRunStep ==
  ASSUME KnowledgeIInv, NEW e \in RunEnvs, NEW on \in BOOLEAN, NEW retrieved \in Seq(Retrievals),
         StartRun(e, on, retrieved), UNCHANGED <<disk, host, pin, loaded, service>>,
         \A i \in DOMAIN retrieved :
            Fits(retrieved[i], e) /\ ~retrieved[i].need.urgent /\ ~retrieved[i].ranked
  PROVE  KnowledgeIInv'
<1>1. /\ env' = e /\ repairs' = <<>> /\ turn' = 0 /\ context' = NoContext /\ traces' = <<>>
      /\ payloads' = <<>> /\ ledger' = NoTraces /\ saved' = NoTraces /\ sent' = <<>>
      /\ phase' = "running" /\ external' = retrieved
  BY DEF StartRun
<1>2. PacksFit'
  BY DEF KnowledgeIInv, PacksFit, disk
<1>3. RetrievalsFit'
  <2>1. \A x, d : Genuine(x, d)' <=> Genuine(x, d)
    BY GenuineKept
  <2>2. \A r, d : Fits(r, d)' <=> Fits(r, d)
    BY <2>1 DEF Fits
  <2>3. /\ external' \in Seq(Retrievals) /\ repairs' \in Seq(Retrievals)
        /\ phase' # "down" /\ repairs' = <<>>
    BY <1>1
  <2>4. \A i \in DOMAIN external' :
           Fits(external[i], env)' /\ ~external'[i].need.urgent /\ ~external'[i].ranked
    BY <1>1, <2>2
  <2>. QED
    BY <2>3, <2>4 DEF RetrievalsFit
<1>4. ContextFits'
  BY <1>1 DEF ContextFits, NoContext
<1>5. LedgerFits'
  BY <1>1 DEF LedgerFits, NoTraces
<1>6. SentFits'
  BY <1>1 DEF SentFits, Phases
<1>. QED
  BY <1>2, <1>3, <1>4, <1>5, <1>6 DEF KnowledgeIInv

(* A need of a task's is one of the model's, and none is urgent.              *)
LEMMA PreCodeFits ==
  ASSUME NEW needs \in PreCode
  PROVE  /\ Len(needs) \in Nat /\ DOMAIN needs = 1..Len(needs)
         /\ \A i \in 1..Len(needs) :
               needs[i] \in NeedType /\ ~needs[i].urgent /\ needs[i].name \in NeedNames
<1>1. needs \in Seq(NeedType) /\ \A i \in DOMAIN needs : ~needs[i].urgent
  BY KnowledgeAssumption
<1>2. \A i \in DOMAIN needs : needs[i].name \in NeedNames
  BY DEF NeedNames, PreCodeNames, ToSet
<1>. QED
  BY <1>1, <1>2

(* FixAgentApplication.run.                                                   *)
LEMMA PrepareStep ==
  ASSUME KnowledgeIInv, NEW e \in RunEnvs, NEW needs \in PreCode, NEW on \in BOOLEAN,
         Prepare(e, needs, on)
  PROVE  KnowledgeIInv'
<1>. DEFINE retrieved == IF on THEN [i \in DOMAIN needs |-> Resolve(needs[i], e)] ELSE <<>>
<1>1. Len(needs) \in Nat /\ DOMAIN needs = 1..Len(needs)
  BY PreCodeFits
<1>2. ASSUME NEW i \in 1..Len(needs)
      PROVE  /\ Resolve(needs[i], e) \in Retrievals /\ Fits(Resolve(needs[i], e), e)
             /\ ~Resolve(needs[i], e).need.urgent /\ ~Resolve(needs[i], e).ranked
  <2>1. needs[i] \in NeedType /\ ~needs[i].urgent /\ needs[i].name \in NeedNames
    BY PreCodeFits
  <2>2. Resolve(needs[i], e).need = needs[i] /\ ~Resolve(needs[i], e).ranked
    BY DEF Resolve, Plain
  <2>. QED
    BY <2>1, <2>2, ResolveFits DEF KnowledgeIInv
<1>3. /\ retrieved \in Seq(Retrievals)
      /\ \A i \in DOMAIN retrieved :
            Fits(retrieved[i], e) /\ ~retrieved[i].need.urgent /\ ~retrieved[i].ranked
  BY <1>1, <1>2
<1>4. StartRun(e, on, retrieved) /\ UNCHANGED <<disk, host, pin, loaded, service>>
  BY DEF Prepare, product
<1>. HIDE DEF retrieved
<1>. QED
  BY <1>3, <1>4, StartRunStep

(* BenchmarkExecutor.execute.                                                 *)
LEMMA ExecuteStep ==
  ASSUME KnowledgeIInv, NEW e \in RunEnvs, NEW needs \in PreCode, NEW on \in BOOLEAN,
         NEW offline \in BOOLEAN, NEW k, Execute(e, needs, on, offline, k)
  PROVE  KnowledgeIInv'
<1>. DEFINE able(i) == IF i < k THEN held ELSE held \cup {service[1]}
            result(i) == Retrieve(needs[i], e, offline, able(i))
            retrieved == IF on /\ service # <<>> THEN [i \in DOMAIN needs |-> result(i)] ELSE <<>>
<1>1. Len(needs) \in Nat /\ DOMAIN needs = 1..Len(needs)
  BY PreCodeFits
<1>2. ASSUME NEW i \in 1..Len(needs), service # <<>>
      PROVE  /\ result(i) \in Retrievals /\ Fits(result(i), e)
             /\ ~result(i).need.urgent /\ ~result(i).ranked
  <2>1. needs[i] \in NeedType /\ ~needs[i].urgent /\ needs[i].name \in NeedNames
    BY PreCodeFits
  <2>2. result(i).need = needs[i] /\ ~result(i).ranked
    BY DEF Retrieve, Plain
  <2>3. result(i) \in Retrievals /\ Fits(result(i), e)
    BY <1>2, <2>1, RetrieveFits DEF KnowledgeIInv
  <2>. QED
    BY <2>1, <2>2, <2>3
<1>3. StartRun(e, on, retrieved) /\ UNCHANGED <<disk, host, pin, loaded, service>>
  BY DEF Execute
<1>. HIDE DEF result
<1>4. /\ retrieved \in Seq(Retrievals)
      /\ \A i \in DOMAIN retrieved :
            Fits(retrieved[i], e) /\ ~retrieved[i].need.urgent /\ ~retrieved[i].ranked
  BY <1>1, <1>2
<1>. HIDE DEF retrieved
<1>. QED
  BY <1>3, <1>4, StartRunStep

(* ContextManager.build, bind_knowledge_traces_to_turn.                       *)
LEMMA BuildStep ==
  ASSUME KnowledgeIInv, NEW w \in Surroundings, Build(w)
  PROVE  KnowledgeIInv'
<1>. DEFINE inputs == external \o repairs
            got == Get(inputs)
<1>1. /\ phase = "running" /\ phase' = "built" /\ turn' = turn + 1
      /\ UNCHANGED <<disk, product, task, repair, trace, sent>>
      /\ context'.given = got.given
      /\ traces' = [i \in DOMAIN got.traces |-> Bound(got.traces[i], turn + 1)]
  BY DEF Build
<1>2. turn \in Nat /\ turn + 1 \in Nat
  BY DEF KnowledgeIInv, SentFits
<1>3. inputs \in Seq(Retrievals) /\ \A i \in DOMAIN inputs : Fits(inputs[i], env)
  <2>1. external \in Seq(Retrievals) /\ repairs \in Seq(Retrievals)
    BY DEF KnowledgeIInv, RetrievalsFit
  <2>2. \A i \in DOMAIN inputs :
           \/ i \in DOMAIN external /\ inputs[i] = external[i]
           \/ i - Len(external) \in DOMAIN repairs /\ inputs[i] = repairs[i - Len(external)]
    BY <2>1
  <2>. QED
    BY <2>1, <2>2 DEF KnowledgeIInv, RetrievalsFit
<1>. HIDE DEF inputs
<1>4. /\ got.given \in Seq(Givens) /\ got.traces \in Seq(Traces)
      /\ \A i \in DOMAIN got.given :
            /\ got.given[i].need \in NeedNames /\ Genuine(got.given[i].item, env)
            /\ \E j \in DOMAIN got.traces : /\ got.traces[j].need = got.given[i].need
                                            /\ got.given[i].item.id \in got.traces[j].context
  BY <1>3, GetFits
<1>. HIDE DEF got
<1>5. traces' \in Seq(Traces) /\ DOMAIN traces' = DOMAIN got.traces
  <2>1. ASSUME NEW t \in Traces
        PROVE  Bound(t, turn + 1) \in Traces
    BY <1>2 DEF Bound, Traces
  <2>. QED
    BY <1>1, <1>4, <2>1
<1>6. ASSUME NEW i \in DOMAIN got.given
      PROVE  \E j \in DOMAIN traces' : Covers(traces'[j], got.given[i], turn + 1)
  <2>1. PICK j \in DOMAIN got.traces :
          got.traces[j].need = got.given[i].need /\ got.given[i].item.id \in got.traces[j].context
    BY <1>4
  <2>2. got.traces[j] \in Traces
    BY <1>4
  <2>3. Covers(Bound(got.traces[j], turn + 1), got.given[i], turn + 1)
    BY <1>2, <2>1, <2>2 DEF Bound, Covers, Traces
  <2>. QED
    BY <1>1, <2>3
<1>7. PacksFit'
  BY <1>1, PacksKept DEF KnowledgeIInv, disk
<1>8. RetrievalsFit'
  BY <1>1, RetrievalsKept DEF KnowledgeIInv, product, task, repair
<1>9. ContextFits'
  <2>1. \A x : Genuine(x, env)' <=> Genuine(x, env)
    BY <1>1, GenuineKept DEF product, task
  <2>. QED
    BY <1>1, <1>4, <1>5, <1>6, <2>1 DEF ContextFits, task
<1>10. LedgerFits'
  BY <1>1 DEF KnowledgeIInv, LedgerFits, trace
<1>11. SentFits'
  <2>1. Len(sent) = turn
    BY <1>1 DEF KnowledgeIInv, SentFits
  <2>. QED
    BY <1>1, <1>2, <2>1 DEF KnowledgeIInv, SentFits, trace, product, Backed, Phases
<1>. QED
  BY <1>7, <1>8, <1>9, <1>10, <1>11 DEF KnowledgeIInv

(* AgentRuntime._persist_knowledge_traces: the new traces are stored, and in  *)
(* the product the ledger refers to them where they are.                      *)
LEMMA PersistTracesStep ==
  ASSUME KnowledgeIInv, PersistTraces
  PROVE  KnowledgeIInv'
<1>. DEFINE Refs(n) == {Len(payloads) + i : i \in {j \in DOMAIN traces : traces[j].need = n}}
<1>1. /\ phase = "built" /\ phase' = "traced"
      /\ payloads' = payloads \o traces
      /\ ledger' = IF host = "product" THEN [n \in NeedNames |-> ledger[n] \cup Refs(n)]
                   ELSE ledger
      /\ UNCHANGED <<disk, product, task, repair, turn, context, traces, saved, sent>>
  BY DEF PersistTraces
<1>2. payloads \in Seq(Traces) /\ traces \in Seq(Traces)
  BY DEF KnowledgeIInv, LedgerFits, ContextFits
<1>3. /\ Len(payloads) \in Nat /\ Len(traces) \in Nat
      /\ DOMAIN payloads = 1..Len(payloads) /\ DOMAIN traces = 1..Len(traces)
  BY <1>2
<1>4. /\ payloads' \in Seq(Traces) /\ DOMAIN payloads' = 1..(Len(payloads) + Len(traces))
      /\ \A j \in DOMAIN payloads : j \in DOMAIN payloads' /\ payloads'[j] = payloads[j]
      /\ \A j \in DOMAIN traces : /\ Len(payloads) + j \in DOMAIN payloads'
                                  /\ payloads'[Len(payloads) + j] = traces[j]
  BY <1>1, <1>2, <1>3
<1>5. \A n \in NeedNames : Refs(n) \in SUBSET DOMAIN payloads'
  BY <1>4
<1>. HIDE DEF Refs
<1>6. /\ ledger \in [NeedNames -> SUBSET DOMAIN payloads]
      /\ saved \in [NeedNames -> SUBSET DOMAIN payloads]
      /\ \A n \in NeedNames : saved[n] \subseteq ledger[n]
  BY <1>1 DEF KnowledgeIInv, LedgerFits
<1>7. PacksFit'
  BY <1>1, PacksKept DEF KnowledgeIInv, disk
<1>8. RetrievalsFit'
  BY <1>1, RetrievalsKept DEF KnowledgeIInv, product, task, repair
<1>9. ContextFits'
  BY <1>1, ContextKept DEF KnowledgeIInv, product, task
<1>10. LedgerFits'
  <2>1. ledger' \in [NeedNames -> SUBSET DOMAIN payloads']
    BY <1>1, <1>4, <1>5, <1>6
  <2>2. saved' \in [NeedNames -> SUBSET DOMAIN payloads']
    BY <1>1, <1>4, <1>6
  <2>3. \A n \in NeedNames : saved'[n] \subseteq ledger'[n]
    BY <1>1, <1>6
  <2>4. ASSUME NEW i \in DOMAIN context.given
        PROVE  Backed(context.given[i], turn, ledger)'
    <3>. DEFINE g == context.given[i]
    <3>1. g.need \in NeedNames
      BY DEF KnowledgeIInv, ContextFits
    <3>2. PICK j \in DOMAIN traces : Covers(traces[j], g, turn)
      BY <1>1 DEF KnowledgeIInv, ContextFits
    <3>3. traces[j].need = g.need
      BY <3>2 DEF Covers
    <3>4. host = "product" => Len(payloads) + j \in ledger'[g.need]
      BY <1>1, <3>1, <3>3 DEF Refs
    <3>5. Covers(payloads'[Len(payloads) + j], g, turn)
      BY <1>4, <3>2
    <3>6. Len(payloads) + j \in DOMAIN payloads' /\ host' = host
      BY <1>1, <1>4 DEF product
    <3>. QED
      BY <1>1, <3>4, <3>5, <3>6 DEF Backed, Covers
  <2>. QED
    BY <1>1, <1>4, <2>1, <2>2, <2>3, <2>4 DEF LedgerFits
<1>11. SentFits'
  <2>1. ASSUME NEW t \in DOMAIN sent, NEW i \in DOMAIN sent[t]
        PROVE  sent[t][i].need \in NeedNames /\ Backed(sent[t][i], t, saved)'
    <3>1. sent[t][i].need \in NeedNames /\ Backed(sent[t][i], t, saved)
      BY DEF KnowledgeIInv, SentFits
    <3>2. PICK ref \in DOMAIN payloads :
            /\ Covers(payloads[ref], sent[t][i], t)
            /\ host = "product" => ref \in saved[sent[t][i].need]
      BY <3>1 DEF Backed
    <3>3. ref \in DOMAIN payloads' /\ payloads'[ref] = payloads[ref] /\ host' = host
      BY <1>1, <1>4, <3>2 DEF product
    <3>. QED
      BY <1>1, <3>1, <3>2, <3>3 DEF Backed, Covers
  <2>. QED
    BY <1>1, <2>1 DEF KnowledgeIInv, SentFits, Phases
<1>. QED
  BY <1>7, <1>8, <1>9, <1>10, <1>11 DEF KnowledgeIInv

(* RunPersistence.save_run_state: what was sent stays backed, since the run   *)
(* state only gains references.                                               *)
LEMMA PersistStateStep ==
  ASSUME KnowledgeIInv, PersistState
  PROVE  KnowledgeIInv'
<1>1. /\ phase = "traced" /\ phase' = "saved" /\ saved' = ledger
      /\ UNCHANGED <<disk, product, task, repair, turn, context, traces, payloads, ledger, sent>>
  BY DEF PersistState
<1>2. PacksFit'
  BY <1>1, PacksKept DEF KnowledgeIInv, disk
<1>3. RetrievalsFit'
  BY <1>1, RetrievalsKept DEF KnowledgeIInv, product, task, repair
<1>4. ContextFits'
  BY <1>1, ContextKept DEF KnowledgeIInv, product, task
<1>5. LedgerFits'
  BY <1>1 DEF KnowledgeIInv, LedgerFits, product, Backed
<1>6. SentFits'
  <2>1. \A n \in NeedNames : saved[n] \subseteq saved'[n]
    BY <1>1 DEF KnowledgeIInv, LedgerFits
  <2>2. ASSUME NEW t \in DOMAIN sent, NEW i \in DOMAIN sent[t]
        PROVE  sent[t][i].need \in NeedNames /\ Backed(sent[t][i], t, saved)'
    <3>1. sent[t][i].need \in NeedNames /\ Backed(sent[t][i], t, saved)
      BY DEF KnowledgeIInv, SentFits
    <3>. QED
      BY <1>1, <2>1, <3>1 DEF product, Backed
  <2>. QED
    BY <1>1, <2>2 DEF KnowledgeIInv, SentFits, Phases
<1>. QED
  BY <1>2, <1>3, <1>4, <1>5, <1>6 DEF KnowledgeIInv

(* AgentRuntime._call_provider: the request goes out after both writes.       *)
LEMMA SendStep ==
  ASSUME KnowledgeIInv, Send
  PROVE  KnowledgeIInv'
<1>1. /\ phase = "saved" /\ phase' = "running" /\ sent' = Append(sent, context.given)
      /\ UNCHANGED <<disk, product, task, repair, turn, context, traces, trace>>
  BY DEF Send
<1>2. PacksFit'
  BY <1>1, PacksKept DEF KnowledgeIInv, disk
<1>3. RetrievalsFit'
  BY <1>1, RetrievalsKept DEF KnowledgeIInv, product, task, repair
<1>4. ContextFits'
  BY <1>1, ContextKept DEF KnowledgeIInv, product, task
<1>5. LedgerFits'
  BY <1>1 DEF KnowledgeIInv, LedgerFits, trace
<1>6. SentFits'
  <2>1. /\ sent \in Seq(Seq(Givens)) /\ context.given \in Seq(Givens)
        /\ turn \in Nat /\ Len(sent) + 1 = turn
    BY <1>1 DEF KnowledgeIInv, SentFits, ContextFits
  <2>2. /\ sent' \in Seq(Seq(Givens)) /\ Len(sent') = turn /\ DOMAIN sent' = 1..turn
        /\ sent'[turn] = context.given
        /\ \A t \in 1..turn : t # turn => t \in DOMAIN sent /\ sent'[t] = sent[t]
    BY <1>1, <2>1
  <2>3. ASSUME NEW t \in 1..turn, NEW i \in DOMAIN sent'[t]
        PROVE  sent'[t][i].need \in NeedNames /\ Backed(sent'[t][i], t, saved)
    <3>1. CASE t = turn
      <4>1. sent'[t] = context.given
        BY <2>2, <3>1
      <4>2. i \in DOMAIN context.given
        BY <2>3, <4>1
      <4>3. Backed(context.given[i], turn, saved) /\ context.given[i].need \in NeedNames
        BY <1>1, <4>2 DEF KnowledgeIInv, LedgerFits, ContextFits
      <4>. QED
        BY <3>1, <4>1, <4>3
    <3>2. CASE t # turn
      <4>1. t \in DOMAIN sent /\ sent'[t] = sent[t]
        BY <2>2, <3>2
      <4>. QED
        BY <4>1, <2>3 DEF KnowledgeIInv, SentFits
    <3>. QED
      BY <3>1, <3>2
  <2>4. \A g, n : Backed(g, n, saved)' <=> Backed(g, n, saved)
    BY <1>1 DEF Backed, trace, product
  <2>. QED
    BY <1>1, <2>1, <2>2, <2>3, <2>4 DEF SentFits, Phases
<1>. QED
  BY <1>2, <1>3, <1>4, <1>5, <1>6 DEF KnowledgeIInv

(* AgentRuntime._handle_validation_failure: the retrievals for a failure.     *)
LEMMA RetrievedFits ==
  ASSUME PacksFit, service # <<>>, NEW f \in Failures
  PROVE  Retrieved(f) \in Seq({r \in Retrievals : Fits(r, env) /\ r.need.urgent})
<1>. DEFINE R == {r \in Retrievals : Fits(r, env) /\ r.need.urgent}
            result(i) == ResolveRanked(service[1], f.needs[i], env)
            parts == [i \in DOMAIN f.needs |-> IF result(i).items = {} THEN <<>> ELSE <<result(i)>>]
<1>1. /\ f.needs \in Seq(NeedType) /\ Len(f.needs) \in Nat
      /\ DOMAIN f.needs = 1..Len(f.needs)
  BY KnowledgeAssumption
<1>2. ASSUME NEW i \in 1..Len(f.needs)
      PROVE  result(i) \in R
  <2>1. f.needs[i] \in NeedType /\ f.needs[i].urgent
    BY <1>1, KnowledgeAssumption
  <2>2. f.needs[i].name \in NeedNames
    BY <1>1 DEF NeedNames, FailureNames, ToSet
  <2>3. result(i).need = f.needs[i]
    BY DEF ResolveRanked, RankedResult
  <2>. QED
    BY <2>1, <2>2, <2>3, ResolveRankedFits
<1>3. Retrieved(f) = FlattenSeq(parts)
  BY DEF Retrieved
<1>. HIDE DEF R, result
<1>4. parts \in Seq(Seq(R))
  <2>1. \A i \in 1..Len(f.needs) : (IF result(i).items = {} THEN <<>> ELSE <<result(i)>>) \in Seq(R)
    BY <1>2
  <2>. QED
    BY <1>1, <2>1
<1>. HIDE DEF parts
<1>5. FlattenSeq(parts) \in Seq(R)
  BY <1>4, FlattenIn
<1>. QED
  BY <1>3, <1>5 DEF R

LEMMA FailStep ==
  ASSUME KnowledgeIInv, NEW f \in Failures, Fail(f)
  PROVE  KnowledgeIInv'
<1>1. /\ phase = "running"
      /\ UNCHANGED <<disk, phase, product, task, turn, context, traces, trace, sent>>
      /\ (repairs' = repairs \/ (service # <<>> /\ repairs' = repairs \o Retrieved(f)))
  BY DEF Fail, HasRepairSource
<1>2. PacksFit'
  BY <1>1, PacksKept DEF KnowledgeIInv, disk
<1>3. RetrievalsFit'
  <2>1. /\ repairs' \in Seq(Retrievals)
        /\ \A i \in DOMAIN repairs' : Fits(repairs'[i], env) /\ repairs'[i].need.urgent
    <3>. DEFINE R == {r \in Retrievals : Fits(r, env) /\ r.need.urgent}
    <3>1. repairs \in Seq(R)
      <4>1. repairs \in Seq(Retrievals) /\ \A i \in DOMAIN repairs : repairs[i] \in R
        BY DEF KnowledgeIInv, RetrievalsFit
      <4>. HIDE DEF R
      <4>. QED
        BY <4>1
    <3>2. service # <<>> => Retrieved(f) \in Seq(R)
      BY RetrievedFits DEF KnowledgeIInv
    <3>3. \A Q : \A a, b \in Seq(Q) : a \o b \in Seq(Q)
      OBVIOUS
    <3>4. repairs' \in Seq(R)
      <4>. HIDE DEF R
      <4>. QED
        BY <1>1, <3>1, <3>2, <3>3
    <3>. QED
      BY <3>4
  <2>2. \A x, e : Genuine(x, e)' <=> Genuine(x, e)
    BY <1>1, GenuineKept DEF product
  <2>3. \A r, e : Fits(r, e)' <=> Fits(r, e)
    BY <2>2 DEF Fits
  <2>. QED
    BY <1>1, <2>1, <2>3 DEF KnowledgeIInv, RetrievalsFit, task
<1>4. ContextFits'
  BY <1>1, ContextKept DEF KnowledgeIInv, product, task
<1>5. LedgerFits'
  BY <1>1 DEF KnowledgeIInv, LedgerFits, trace, product, Backed
<1>6. SentFits'
  BY <1>1 DEF KnowledgeIInv, SentFits, trace, product, Backed
<1>. QED
  BY <1>2, <1>3, <1>4, <1>5, <1>6 DEF KnowledgeIInv

LEMMA EndStep ==
  ASSUME KnowledgeIInv, End
  PROVE  KnowledgeIInv'
<1>1. /\ phase' = "ready" /\ context' = NoContext
      /\ UNCHANGED <<disk, product, task, repair, turn, traces, trace, sent>>
  BY DEF End
<1>2. PacksFit'
  BY <1>1, PacksKept DEF KnowledgeIInv, disk
<1>3. RetrievalsFit'
  BY <1>1, RetrievalsKept DEF KnowledgeIInv, product, task, repair
<1>4. ContextFits'
  BY <1>1 DEF KnowledgeIInv, ContextFits, NoContext
<1>5. LedgerFits'
  BY <1>1 DEF KnowledgeIInv, LedgerFits, trace
<1>6. SentFits'
  BY <1>1 DEF KnowledgeIInv, SentFits, trace, product, Backed, Phases
<1>. QED
  BY <1>2, <1>3, <1>4, <1>5, <1>6 DEF KnowledgeIInv

(* The process dies: what was sent stays backed by what is on disk.           *)
LEMMA CrashStep ==
  ASSUME KnowledgeIInv, Crash
  PROVE  KnowledgeIInv'
<1>1. /\ phase' = "down" /\ loaded' = NoPack /\ pin' = NoPack /\ service' = <<>>
      /\ external' = <<>> /\ repairs' = <<>> /\ context' = NoContext /\ traces' = <<>>
      /\ ledger' = NoTraces
      /\ UNCHANGED <<disk, host, env, enabled, turn, payloads, saved, sent>>
  BY DEF Crash
<1>2. PacksFit'
  BY <1>1 DEF KnowledgeIInv, PacksFit, disk
<1>3. RetrievalsFit'
  BY <1>1 DEF RetrievalsFit
<1>4. ContextFits'
  BY <1>1 DEF ContextFits, NoContext
<1>5. LedgerFits'
  BY <1>1 DEF KnowledgeIInv, LedgerFits, NoTraces
<1>6. SentFits'
  BY <1>1 DEF KnowledgeIInv, SentFits, Backed, Phases
<1>. QED
  BY <1>2, <1>3, <1>4, <1>5, <1>6 DEF KnowledgeIInv

LEMMA KnowledgeNextStep == KnowledgeIInv /\ [KnowledgeNext]_knowledgeVars => KnowledgeIInv'
<1>. SUFFICES ASSUME KnowledgeIInv, [KnowledgeNext]_knowledgeVars
              PROVE  KnowledgeIInv'
  OBVIOUS
<1>1. ASSUME NEW p \in Places, NEW e \in PackEnvs, NEW v \in Versions, Materialize(p, e, v)
      PROVE  KnowledgeIInv'
  <2>1. PacksFit'
    BY <1>1, MaterializeStep DEF KnowledgeIInv
  <2>. QED
    BY <1>1, <2>1, StoreStep DEF Materialize
<1>2. ASSUME NEW p \in Places, NEW q \in Places, Supersede(p, q)
      PROVE  KnowledgeIInv'
  <2>1. PacksFit'
    BY <1>2, SupersedeStep DEF KnowledgeIInv
  <2>. QED
    BY <1>2, <2>1, StoreStep DEF Supersede
<1>3. ASSUME NEW p \in Places, NEW r \in Damaged, NEW v \in Versions, Damage(p, r, v)
      PROVE  KnowledgeIInv'
  <2>1. PacksFit'
    BY <1>3, DamageStep DEF KnowledgeIInv
  <2>. QED
    BY <1>3, <2>1, StoreStep DEF Damage
<1>4. ASSUME NEW p \in Places, NEW wanted \in published \cup {NoPack}, StartWithPack(p, wanted)
      PROVE  KnowledgeIInv'
  BY <1>4, StartWithPackStep
<1>5. ASSUME NEW s \in Services, StartWithService(s)
      PROVE  KnowledgeIInv'
  BY <1>5, StartWithServiceStep
<1>6. ASSUME NEW e \in RunEnvs, NEW needs \in PreCode, NEW on \in BOOLEAN, Prepare(e, needs, on)
      PROVE  KnowledgeIInv'
  BY <1>6, PrepareStep
<1>7. ASSUME NEW e \in RunEnvs, NEW needs \in PreCode, NEW on \in BOOLEAN, NEW offline \in BOOLEAN,
             NEW k \in 1 .. Len(needs) + 1, Execute(e, needs, on, offline, k)
      PROVE  KnowledgeIInv'
  BY <1>7, ExecuteStep
<1>8. ASSUME NEW w \in Surroundings, Build(w)
      PROVE  KnowledgeIInv'
  BY <1>8, BuildStep
<1>9. ASSUME NEW f \in Failures, Fail(f)
      PROVE  KnowledgeIInv'
  BY <1>9, FailStep
<1>10. CASE PersistTraces
  BY <1>10, PersistTracesStep
<1>11. CASE PersistState
  BY <1>11, PersistStateStep
<1>12. CASE Send
  BY <1>12, SendStep
<1>13. CASE End
  BY <1>13, EndStep
<1>14. CASE Crash
  BY <1>14, CrashStep
<1>15. CASE UNCHANGED knowledgeVars
  <2>1. /\ UNCHANGED <<disk, phase, product, task, repair, turn, context, traces, trace, sent>>
    BY <1>15 DEF knowledgeVars
  <2>2. PacksFit'
    BY <2>1, PacksKept DEF KnowledgeIInv, disk
  <2>. QED
    BY <2>1, <2>2, StoreStep
<1>. QED
  BY <1>1, <1>2, <1>3, <1>4, <1>5, <1>6, <1>7, <1>8, <1>9, <1>10, <1>11, <1>12, <1>13, <1>14, <1>15
  DEF KnowledgeNext

(* The knowledge in memory is what frozen packs and compatible sources have,  *)
(* and what was sent is in a stored trace, to which in the product the run    *)
(* state on disk refers, in every reachable state.                            *)
THEOREM KnowledgeInvariantHolds == KnowledgeSpec => []KnowledgeIInv
<1>. QED
  BY KnowledgeStarts, KnowledgeNextStep, PTL DEF KnowledgeSpec

(* Whatever happens to the packs on disk, what a turn is given of a pack is   *)
(* of one that was published for the environment of the run, and the one the  *)
(* operator pinned (load_frozen_knowledge_pack).                              *)
THEOREM KnowledgeIsGenuine == KnowledgeSpec => []KnowledgeIsOfThePack
<1>1. KnowledgeIInv => KnowledgeIsOfThePack
  <2>. SUFFICES ASSUME KnowledgeIInv
                PROVE  KnowledgeIsOfThePack
    OBVIOUS
  <2>. DEFINE items == {context.given[i].item : i \in DOMAIN context.given}
              none == [env |-> env, inventory |-> {}]
  <2>1. \A x \in items : Genuine(x, env)
    BY DEF KnowledgeIInv, ContextFits
  <2>. HIDE DEF items
  <2>2. CASE loaded # NoPack
    <3>1. /\ Identity(loaded) \in published /\ pin \in {NoPack, Identity(loaded)}
          /\ loaded.records = loaded.inventory
      BY <2>2 DEF KnowledgeIInv, PacksFit, Verified
    <3>2. Identity(loaded).env = loaded.env /\ Identity(loaded).inventory = loaded.inventory
      BY DEF Identity
    <3>3. \A x \in items : x.source = "pack" =>
             /\ EnvironmentMatches(Identity(loaded).env, env)
             /\ <<x.id, x.version>> \in Identity(loaded).inventory
      BY <2>1, <3>1, <3>2 DEF Genuine
    <3>. QED
      BY <2>1, <3>1, <3>3 DEF KnowledgeIsOfThePack, Genuine, items
  <2>3. CASE loaded = NoPack
    <3>1. none \in published \cup {none} /\ \A x \in items : x.source # "pack"
      BY <2>1, <2>3 DEF Genuine
    <3>. QED
      BY <2>1, <3>1 DEF KnowledgeIsOfThePack, Genuine, items
  <2>. QED
    BY <2>2, <2>3
<1>. QED
  BY <1>1, KnowledgeInvariantHolds, PTL

(* The trace of whatever a request carried is on disk, and in the product     *)
(* referred to from the run state on disk, when the request goes out and ever *)
(* after, the process dead or not (AgentRuntime._call_provider).  The run     *)
(* state of a benchmark has no ledger to refer to it.                         *)
THEOREM SentIsTraced == KnowledgeSpec => []TracedBeforeSent
<1>1. KnowledgeIInv => TracedBeforeSent
  BY DEF KnowledgeIInv, SentFits, Backed, Covers, TracedBeforeSent
<1>. QED
  BY <1>1, KnowledgeInvariantHolds, PTL

-----------------------------------------------------------------------------
(* Knowledge: what is delivered for failures.                                 *)

(* The order of a turn's items is strict and total.                           *)
Sortable(items, N) ==
    \A i \in 1..N : items[i].priority \in Nat /\ items[i].kind \in DOMAIN SourceRank
LEMMA EarlierOnce ==
  ASSUME NEW items, NEW N \in Nat, Sortable(items, N), NEW i \in 1..N, NEW j \in 1..N, i # j
  PROVE  ~(Earlier(items, i, j) /\ Earlier(items, j, i))
<1>1. items[i].priority \in Nat /\ items[j].priority \in Nat
  BY DEF Sortable
<1>2. SourceRank[items[i].kind] \in Nat /\ SourceRank[items[j].kind] \in Nat
  BY DEF Sortable, SourceRank
<1>. QED
  BY <1>1, <1>2 DEF Earlier

(* Some item is the earliest of those that are left.                          *)
LEMMA EarliestExists ==
  ASSUME NEW items, NEW N \in Nat, Sortable(items, N), NEW R \in SUBSET (1..N), R # {}
  PROVE  \E i \in R : \A j \in R \ {i} : Earlier(items, i, j)
<1>. DEFINE p(i) == items[i].priority
            k(i) == SourceRank[items[i].kind]
<1>1. \A i \in R : i \in Nat /\ p(i) \in Nat /\ k(i) \in Nat
  BY DEF Sortable, SourceRank
<1>. HIDE DEF p, k
<1>. DEFINE P == {p(i) : i \in R}
<1>2. PICK a \in R : \A i \in R : p(a) <= p(i)
  <2>1. P \in SUBSET Nat /\ P # {}
    BY <1>1
  <2>2. \E x \in P : \A y \in P : x <= y
    <3>. HIDE DEF P
    <3>. QED
      BY <2>1, LeastNat
  <2>. QED
    BY <2>2
<1>. DEFINE Ra == {i \in R : p(i) = p(a)}
            K == {k(i) : i \in Ra}
<1>3. PICK b \in Ra : \A i \in Ra : k(b) <= k(i)
  <2>1. K \in SUBSET Nat /\ K # {}
    BY <1>1, <1>2
  <2>2. \E x \in K : \A y \in K : x <= y
    <3>. HIDE DEF K
    <3>. QED
      BY <2>1, LeastNat
  <2>. QED
    BY <2>2
<1>. DEFINE Rb == {i \in Ra : k(i) = k(b)}
<1>4. PICK c \in Rb : \A i \in Rb : c <= i
  <2>1. Rb \in SUBSET Nat /\ Rb # {}
    BY <1>1, <1>3
  <2>. HIDE DEF Rb
  <2>. QED
    BY <2>1, LeastNat
<1>5. c \in R /\ p(c) = p(a) /\ k(c) = k(b)
  BY <1>4
<1>6. ASSUME NEW j \in R, j # c
      PROVE  p(c) < p(j) \/ (p(c) = p(j) /\ (k(c) < k(j) \/ (k(c) = k(j) /\ c < j)))
  <2>1. p(c) <= p(j) /\ p(c) \in Nat /\ p(j) \in Nat /\ k(c) \in Nat /\ k(j) \in Nat /\ c \in Nat /\ j \in Nat
    BY <1>1, <1>2, <1>5
  <2>2. CASE p(j) = p(c)
    <3>1. j \in Ra
      BY <1>5, <2>2
    <3>2. k(c) <= k(j)
      BY <1>3, <1>5, <3>1
    <3>3. CASE k(j) = k(c)
      <4>1. c <= j
        BY <1>4, <1>5, <3>1, <3>3
      <4>. QED
        BY <1>6, <2>1, <2>2, <3>3, <4>1
    <3>4. CASE k(j) # k(c)
      BY <2>1, <2>2, <3>2, <3>4
    <3>. QED
      BY <3>3, <3>4
  <2>3. CASE p(j) # p(c)
    BY <2>1, <2>3
  <2>. QED
    BY <2>2, <2>3
<1>7. ASSUME NEW j \in R, j # c
      PROVE  Earlier(items, c, j)
  BY <1>6, <1>7 DEF Earlier, p, k
<1>. QED
  BY <1>5, <1>7

(* One step of the bundle looks at the earliest item of the rest.             *)
LEMMA FitNextIs ==
  ASSUME NEW items, NEW N \in Nat, Sortable(items, N), NEW so,
         so.rest \in SUBSET (1..N), so.rest # {}
  PROVE  \E i \in so.rest : /\ \A j \in so.rest \ {i} : Earlier(items, i, j)
                            /\ FitNext(items, so) = FitIn(items[i], i, so)
<1>. DEFINE first == CHOOSE i \in so.rest : \A j \in so.rest \ {i} : Earlier(items, i, j)
<1>1. \E i \in so.rest : \A j \in so.rest \ {i} : Earlier(items, i, j)
  BY EarliestExists
<1>2. first \in so.rest /\ \A j \in so.rest \ {first} : Earlier(items, first, j)
  BY <1>1
<1>3. FitNext(items, so) = FitIn(items[first], first, so)
  BY DEF FitNext
<1>. QED
  BY <1>2, <1>3

LEMMA FitInIs ==
  ASSUME NEW x, NEW i, NEW so
  PROVE  /\ FitIn(x, i, so).rest = so.rest \ {i}
         /\ \/ FitIn(x, i, so).items = so.items
            \/ \E e : e.of = x /\ FitIn(x, i, so).items = Append(so.items, e)
<1>. DEFINE left == ContextBytes - so.total - (IF so.items = <<>> THEN 0 ELSE 2)
            size == IF x.size <= left THEN x.size ELSE left
            e == [of |-> x, size |-> size, whole |-> x.size <= left]
<1>1. CASE ~so.full /\ left > 0 /\ (x.size <= left \/ x.head <= left)
  <2>1. FitIn(x, i, so) = [rest |-> so.rest \ {i}, total |-> ContextBytes - left + size,
                           full |-> x.size > left, items |-> Append(so.items, e)]
    BY <1>1 DEF FitIn
  <2>2. e.of = x
    OBVIOUS
  <2>. HIDE DEF e, left, size
  <2>. QED
    BY <2>1, <2>2
<1>2. CASE ~(~so.full /\ left > 0 /\ (x.size <= left \/ x.head <= left))
  <2>1. FitIn(x, i, so) = [rest |-> so.rest \ {i}, total |-> so.total, full |-> so.full,
                           items |-> so.items]
    BY <1>2 DEF FitIn
  <2>. QED
    BY <2>1
<1>. QED
  BY <1>1, <1>2

(* The bundle's steps are defined.                                            *)
IsFitting(f, items, start, N) ==
    f = [k \in 0..N |-> IF k = 0 THEN start ELSE FitNext(items, f[k - 1])]
LEMMA FittingExists ==
  ASSUME NEW items, NEW start, NEW N \in Nat
  PROVE  \E f : IsFitting(f, items, start, N)
<1>. DEFINE Fitting(f, m) == f = [k \in 0..m |-> IF k = 0 THEN start ELSE FitNext(items, f[k - 1])]
            Bad == {m \in Nat : ~\E f : Fitting(f, m)}
<1>1. Bad = {}
  <2>. SUFFICES ASSUME Bad # {}
                PROVE  FALSE
    OBVIOUS
  <2>1. PICK m \in Bad : \A k \in Bad : m <= k
    <3>1. Bad \in SUBSET Nat
      OBVIOUS
    <3>. HIDE DEF Bad
    <3>. QED
      BY <3>1, LeastNat
  <2>2. m \in Nat
    OBVIOUS
  <2>3. CASE m = 0
    <3>1. Fitting([k \in 0..0 |-> start], 0)
      OBVIOUS
    <3>. QED
      BY <3>1, <2>3
  <2>4. CASE m # 0
    <3>1. m - 1 \in Nat /\ m - 1 \notin Bad
      <4>1. m - 1 \in Nat /\ ~(m <= m - 1)
        BY <2>2, <2>4
      <4>. QED
        BY <2>1, <4>1
    <3>2. PICK f : Fitting(f, m - 1)
      BY <3>1
    <3>. DEFINE g == [k \in 0..m |-> IF k = m THEN FitNext(items, f[m - 1]) ELSE f[k]]
    <3>3. ASSUME NEW k \in 0..(m - 1)
          PROVE  g[k] = f[k]
      <4>1. k \in 0..m /\ k # m
        BY <2>2
      <4>. QED
        BY <4>1
    <3>4. g[m] = FitNext(items, f[m - 1]) /\ DOMAIN g = 0..m
      BY <2>2
    <3>5. g = [k \in 0..m |-> g[k]]
      OBVIOUS
    <3>. HIDE DEF g
    <3>6. ASSUME NEW k \in 0..m
          PROVE  g[k] = IF k = 0 THEN start ELSE FitNext(items, g[k - 1])
      <4>1. CASE k = m
        <5>1. m - 1 \in 0..(m - 1)
          BY <2>2, <2>4
        <5>. QED
          BY <2>4, <3>3, <3>4, <4>1, <5>1
      <4>2. CASE k # m
        <5>1. k \in 0..(m - 1) /\ (k # 0 => k - 1 \in 0..(m - 1))
          BY <2>2, <4>2
        <5>. QED
          BY <3>2, <3>3, <5>1
      <4>. QED
        BY <4>1, <4>2
    <3>7. Fitting(g, m)
      BY <3>5, <3>6
    <3>. QED
      BY <3>7
  <2>. QED
    BY <2>3, <2>4
<1>. QED
  BY <1>1 DEF IsFitting

BundleStart(N) == [rest |-> 1..N, total |-> 0, full |-> FALSE, items |-> <<>>]
Urgent(x) == x.kind = "knowledge" /\ x.given.urgent

(* Each step looks at one item more.                                          *)
LEMMA FittingKeeps ==
  ASSUME NEW items, NEW N \in Nat, Sortable(items, N), NEW f,
         IsFitting(f, items, BundleStart(N), N)
  PROVE  /\ f[0] = BundleStart(N) /\ \A k \in 1..N : f[k] = FitNext(items, f[k - 1])
         /\ \A k \in 0..N :
               /\ f[k].rest \in SUBSET (1..N) /\ IsFiniteSet(f[k].rest)
               /\ Cardinality(f[k].rest) = N - k
               /\ \E S : f[k].items \in Seq(S)
<1>. DEFINE Good(so, k) == /\ so.rest \in SUBSET (1..N) /\ IsFiniteSet(so.rest)
                           /\ Cardinality(so.rest) = N - k
                           /\ \E S : so.items \in Seq(S)
            Bad == {k \in 0..N : ~Good(f[k], k)}
<1>1. f[0] = BundleStart(N) /\ \A k \in 1..N : f[k] = FitNext(items, f[k - 1])
  BY DEF IsFitting
<1>2. Bad = {}
  <2>. SUFFICES ASSUME Bad # {}
                PROVE  FALSE
    OBVIOUS
  <2>1. PICK m \in Bad : \A k \in Bad : m <= k
    <3>1. Bad \in SUBSET Nat
      OBVIOUS
    <3>. HIDE DEF Bad
    <3>. QED
      BY <3>1, LeastNat
  <2>2. m \in 0..N /\ m \in Nat /\ ~Good(f[m], m)
    OBVIOUS
  <2>3. m # 0
    <3>1. f[0].rest = 1..N /\ f[0].items = <<>> /\ <<>> \in Seq({})
      BY <1>1 DEF BundleStart
    <3>2. IsFiniteSet(1..N) /\ Cardinality(1..N) = N - 0
      BY FS_Interval
    <3>3. \E S : f[0].items \in Seq(S)
      BY <3>1
    <3>4. Good(f[0], 0)
      BY <3>1, <3>2, <3>3
    <3>. QED
      BY <2>2, <3>4
  <2>4. m \in 1..N /\ Good(f[m - 1], m - 1)
    <3>1. m - 1 \in 0..N /\ ~(m <= m - 1) /\ m \in 1..N
      BY <2>2, <2>3
    <3>. HIDE DEF Good
    <3>. QED
      BY <2>1, <3>1
  <2>. DEFINE so == f[m - 1]
  <2>5. so.rest # {}
    <3>1. Cardinality(so.rest) # 0
      BY <2>4
    <3>. QED
      BY <3>1, FS_EmptySet
  <2>6. PICK i \in so.rest : FitNext(items, so) = FitIn(items[i], i, so)
    <3>1. so.rest \in SUBSET (1..N)
      BY <2>4
    <3>. HIDE DEF so
    <3>. QED
      BY <2>5, <3>1, FitNextIs
  <2>7. f[m] = FitIn(items[i], i, so)
    BY <1>1, <2>4, <2>6
  <2>8. /\ FitIn(items[i], i, so).rest = so.rest \ {i}
        /\ \/ FitIn(items[i], i, so).items = so.items
           \/ \E e : e.of = items[i] /\ FitIn(items[i], i, so).items = Append(so.items, e)
    <3>. HIDE DEF so
    <3>. QED
      BY FitInIs
  <2>9. \E S : f[m].items \in Seq(S)
    <3>1. PICK S : so.items \in Seq(S)
      BY <2>4
    <3>2. CASE f[m].items = so.items
      BY <3>1, <3>2
    <3>3. CASE \E e : f[m].items = Append(so.items, e)
      <4>1. PICK e : f[m].items = Append(so.items, e)
        BY <3>3
      <4>2. \A q \in Seq(S) : Append(q, e) \in Seq(S \cup {e})
        OBVIOUS
      <4>3. f[m].items \in Seq(S \cup {e})
        <5>. HIDE DEF so
        <5>. QED
          BY <3>1, <4>1, <4>2
      <4>. QED
        BY <4>3
    <3>. QED
      BY <2>7, <2>8, <3>2, <3>3
  <2>10. /\ IsFiniteSet(so.rest \ {i}) /\ Cardinality(so.rest \ {i}) = Cardinality(so.rest) - 1
    <3>1. IsFiniteSet(so.rest) /\ i \in so.rest
      BY <2>4
    <3>. HIDE DEF so
    <3>. QED
      BY <3>1, FS_RemoveElement
  <2>11. f[m].rest = so.rest \ {i}
    BY <2>7, <2>8
  <2>12. Cardinality(f[m].rest) = N - m /\ f[m].rest \in SUBSET (1..N) /\ IsFiniteSet(f[m].rest)
    <3>1. Cardinality(so.rest) = N - (m - 1) /\ so.rest \in SUBSET (1..N)
      BY <2>4
    <3>. HIDE DEF so
    <3>. QED
      BY <2>2, <2>10, <2>11, <3>1
  <2>. QED
    BY <2>2, <2>9, <2>12
<1>. QED
  BY <1>1, <1>2

LEMMA FittingStep ==
  ASSUME NEW items, NEW N \in Nat, Sortable(items, N), NEW f,
         IsFitting(f, items, BundleStart(N), N), NEW k \in 1..N
  PROVE  \E i \in f[k - 1].rest :
            /\ \A j \in f[k - 1].rest \ {i} : Earlier(items, i, j)
            /\ f[k] = FitIn(items[i], i, f[k - 1])
<1>1. k - 1 \in 0..N
  OBVIOUS
<1>2. /\ f[k] = FitNext(items, f[k - 1]) /\ f[k - 1].rest \in SUBSET (1..N)
      /\ Cardinality(f[k - 1].rest) = N - (k - 1)
  BY <1>1, FittingKeeps
<1>3. f[k - 1].rest # {}
  <2>1. Cardinality(f[k - 1].rest) # 0
    BY <1>2
  <2>. QED
    BY <2>1, FS_EmptySet
<1>. QED
  BY <1>2, <1>3, FitNextIs

(* When nothing is left for failures, nothing more is delivered for them.     *)
LEMMA NothingMore ==
  ASSUME NEW items, NEW N \in Nat, Sortable(items, N), NEW f,
         IsFitting(f, items, BundleStart(N), N), NEW k \in 1..N,
         \A i \in f[k - 1].rest : ~Urgent(items[i])
  PROVE  /\ Failing(f[k].items) = Failing(f[k - 1].items)
         /\ f[k].rest \subseteq f[k - 1].rest
<1>1. PICK i \in f[k - 1].rest : f[k] = FitIn(items[i], i, f[k - 1])
  BY FittingStep
<1>2. /\ f[k].rest = f[k - 1].rest \ {i}
      /\ \/ f[k].items = f[k - 1].items
         \/ \E e : e.of = items[i] /\ f[k].items = Append(f[k - 1].items, e)
  BY <1>1, FitInIs
<1>3. PICK S : f[k - 1].items \in Seq(S)
  <2>1. k - 1 \in 0..N
    OBVIOUS
  <2>. QED
    BY <2>1, FittingKeeps
<1>4. CASE f[k].items = f[k - 1].items
  BY <1>2, <1>4
<1>5. CASE \E e : e.of = items[i] /\ f[k].items = Append(f[k - 1].items, e)
  <2>1. PICK e : e.of = items[i] /\ f[k].items = Append(f[k - 1].items, e)
    BY <1>5
  <2>2. \A q \in Seq(S) : ToSet(Append(q, e)) = ToSet(q) \cup {e}
    <3>. TAKE q \in Seq(S)
    <3>1. /\ Len(q) \in Nat /\ DOMAIN q = 1..Len(q) /\ DOMAIN Append(q, e) = 1..(Len(q) + 1)
          /\ \A j \in 1..Len(q) : Append(q, e)[j] = q[j]
          /\ Append(q, e)[Len(q) + 1] = e
      OBVIOUS
    <3>. QED
      BY <3>1 DEF ToSet
  <2>3. ToSet(f[k].items) = ToSet(f[k - 1].items) \cup {e}
    BY <1>3, <2>1, <2>2
  <2>4. ~(e.of.kind = "knowledge" /\ e.of.given.urgent)
    BY <2>1 DEF Urgent
  <2>. QED
    BY <1>2, <2>3, <2>4 DEF Failing
<1>. QED
  BY <1>2, <1>4, <1>5

\* Items A are items B, the urgent ones at G, with later ones behind them.
Prolongs(A, N, B, n, G) ==
    /\ Sortable(A, N) /\ \A i \in 1..n : A[i] = B[i]
    /\ G \in SUBSET (1..n) /\ \A i \in (1..N) \ G : ~Urgent(A[i])
    /\ \A i \in G : \A j \in (n + 1)..N : Earlier(A, i, j)

(* Generic items behind the others change nothing of what is delivered for    *)
(* failures (ContextManager.collect, ContextBundle.build).                    *)
LEMMA BundleKeeps ==
  ASSUME NEW A, NEW B, NEW N \in Nat, NEW n \in 0..N, NEW G, Prolongs(A, N, B, n, G),
         NEW f, IsFitting(f, A, BundleStart(N), N),
         NEW g, IsFitting(g, B, BundleStart(n), n)
  PROVE  Failing(f[N].items) = Failing(g[n].items)
<1>0. /\ Sortable(A, N) /\ \A i \in 1..n : A[i] = B[i]
      /\ G \in SUBSET (1..n) /\ \A i \in (1..N) \ G : ~Urgent(A[i])
      /\ \A i \in G : \A j \in (n + 1)..N : Earlier(A, i, j)
  BY DEF Prolongs
<1>1. n \in Nat /\ Sortable(B, n) /\ n <= N
  BY <1>0 DEF Sortable
<1>2. \A i, j \in 1..n : Earlier(A, i, j) <=> Earlier(B, i, j)
  BY <1>0 DEF Earlier
<1>. DEFINE Same(k) == /\ f[k].rest = g[k].rest \cup ((n + 1)..N)
                       /\ f[k].total = g[k].total /\ f[k].full = g[k].full
                       /\ f[k].items = g[k].items
            Done(k) == /\ f[k].rest \cap G = {} /\ g[k].rest \cap G = {}
                       /\ Failing(f[k].items) = Failing(g[k].items)
            Bad == {k \in 0..n : ~(Same(k) \/ Done(k))}
<1>3. /\ \A k \in 0..n : g[k].rest \in SUBSET (1..n) /\ Cardinality(g[k].rest) = n - k
                         /\ IsFiniteSet(g[k].rest)
      /\ g[0] = BundleStart(n)
  BY <1>0, <1>1, FittingKeeps
<1>4. /\ \A k \in 0..N : f[k].rest \in SUBSET (1..N)
      /\ f[0] = BundleStart(N)
  BY <1>0, FittingKeeps
<1>5. ASSUME NEW k \in 1..N, f[k - 1].rest \cap G = {}
      PROVE  Failing(f[k].items) = Failing(f[k - 1].items) /\ f[k].rest \cap G = {}
  <2>1. \A i \in f[k - 1].rest : ~Urgent(A[i])
    <3>1. k - 1 \in 0..N
      OBVIOUS
    <3>. QED
      BY <1>0, <1>4, <1>5, <3>1
  <2>. QED
    BY <1>0, <1>5, <2>1, NothingMore
<1>6. ASSUME NEW k \in 1..n, g[k - 1].rest \cap G = {}
      PROVE  Failing(g[k].items) = Failing(g[k - 1].items) /\ g[k].rest \cap G = {}
  <2>1. \A i \in g[k - 1].rest : ~Urgent(B[i])
    <3>1. k - 1 \in 0..n
      OBVIOUS
    <3>2. \A i \in 1..n : i \notin G => ~Urgent(B[i])
      BY <1>0, <1>1
    <3>. QED
      BY <1>0, <1>3, <1>6, <3>1, <3>2
  <2>. QED
    BY <1>0, <1>1, <1>6, <2>1, NothingMore
<1>7. Bad = {}
  <2>. SUFFICES ASSUME Bad # {}
                PROVE  FALSE
    OBVIOUS
  <2>1. PICK m \in Bad : \A k \in Bad : m <= k
    <3>1. Bad \in SUBSET Nat
      BY <1>0, <1>1
    <3>. HIDE DEF Bad
    <3>. QED
      BY <3>1, LeastNat
  <2>2. m \in 0..n /\ m \in Nat /\ ~Same(m) /\ ~Done(m)
    BY <1>0, <1>1
  <2>3. m # 0
    <3>1. (1..N) = (1..n) \cup ((n + 1)..N)
      BY <1>0, <1>1
    <3>2. Same(0)
      BY <1>0, <1>3, <1>4, <3>1 DEF BundleStart
    <3>. QED
      BY <2>2, <3>2
  <2>4. m \in 1..n /\ m \in 1..N /\ m - 1 \in 0..n /\ (Same(m - 1) \/ Done(m - 1))
    <3>1. m - 1 \in 0..n /\ ~(m <= m - 1) /\ m \in 1..n /\ m \in 1..N
      BY <1>0, <1>1, <2>2, <2>3
    <3>. HIDE DEF Same, Done
    <3>. QED
      BY <2>1, <3>1
  <2>5. CASE Done(m - 1)
    <3>1. Done(m)
      BY <1>0, <1>5, <1>6, <2>4, <2>5
    <3>. QED
      BY <2>2, <3>1
  <2>6. CASE Same(m - 1) /\ g[m - 1].rest \cap G = {}
    <3>1. f[m - 1].rest \cap G = {}
      <4>1. \A i \in G : i \notin (n + 1)..N
        BY <1>0, <1>1
      <4>. QED
        BY <2>6, <4>1
    <3>2. Done(m - 1)
      BY <2>6, <3>1
    <3>3. Done(m)
      BY <1>0, <1>5, <1>6, <2>4, <3>2
    <3>. QED
      BY <2>2, <3>3
  <2>7. CASE Same(m - 1) /\ g[m - 1].rest \cap G # {}
    <3>1. PICK a \in f[m - 1].rest : /\ \A j \in f[m - 1].rest \ {a} : Earlier(A, a, j)
                                     /\ f[m] = FitIn(A[a], a, f[m - 1])
      BY <1>0, <2>4, FittingStep
    <3>2. PICK b \in g[m - 1].rest : /\ \A j \in g[m - 1].rest \ {b} : Earlier(B, b, j)
                                     /\ g[m] = FitIn(B[b], b, g[m - 1])
      BY <1>0, <1>1, <2>4, FittingStep
    <3>3. b \in 1..n /\ b \in 1..N /\ b \in f[m - 1].rest /\ a \in 1..N
      BY <1>0, <1>1, <1>3, <1>4, <2>4, <2>7, <3>1, <3>2
    <3>4. a \in g[m - 1].rest /\ a \in 1..n
      <4>1. PICK c \in G : c \in g[m - 1].rest
        BY <2>7
      <4>2. c \in 1..N /\ c \in f[m - 1].rest /\ c \in 1..n
        BY <1>0, <1>1, <2>7, <4>1
      <4>3. ASSUME a \in (n + 1)..N
            PROVE  FALSE
        <5>1. Earlier(A, c, a) /\ a # c
          BY <1>0, <1>1, <4>2, <4>3
        <5>2. Earlier(A, a, c)
          BY <3>1, <4>2, <5>1
        <5>. QED
          BY <1>0, <3>3, <4>2, <5>1, <5>2, EarlierOnce
      <4>4. a \in g[m - 1].rest
        BY <2>7, <3>1, <4>3
      <4>. QED
        BY <1>0, <1>3, <2>4, <4>4
    <3>5. a = b
      <4>. SUFFICES ASSUME a # b
                    PROVE  FALSE
        OBVIOUS
      <4>1. Earlier(A, a, b)
        BY <3>1, <3>3
      <4>2. Earlier(B, b, a)
        BY <3>2, <3>4
      <4>3. Earlier(A, b, a)
        BY <1>2, <3>3, <3>4, <4>2
      <4>. QED
        BY <1>0, <3>3, <4>1, <4>3, EarlierOnce
    <3>6. A[a] = B[b] /\ a \notin (n + 1)..N
      BY <1>0, <1>1, <3>3, <3>5
    <3>. DEFINE x == A[a]
                s == f[m - 1]
                t == g[m - 1]
    <3>7. f[m] = FitIn(x, a, s) /\ g[m] = FitIn(x, a, t)
      BY <3>1, <3>2, <3>5, <3>6
    <3>8. s.total = t.total /\ s.full = t.full /\ s.items = t.items
          /\ s.rest = t.rest \cup ((n + 1)..N)
      BY <2>7
    <3>. HIDE DEF x, s, t
    <3>9. /\ FitIn(x, a, s).total = FitIn(x, a, t).total
          /\ FitIn(x, a, s).full = FitIn(x, a, t).full
          /\ FitIn(x, a, s).items = FitIn(x, a, t).items
      BY <3>8 DEF FitIn
    <3>10. FitIn(x, a, s).rest = s.rest \ {a} /\ FitIn(x, a, t).rest = t.rest \ {a}
      BY FitInIs
    <3>11. FitIn(x, a, s).rest = FitIn(x, a, t).rest \cup ((n + 1)..N)
      BY <3>6, <3>8, <3>10
    <3>12. Same(m)
      BY <3>7, <3>9, <3>11
    <3>. QED
      BY <2>2, <3>12
  <2>. QED
    BY <2>4, <2>5, <2>6, <2>7
<1>8. f[n].rest \cap G = {} /\ Failing(f[n].items) = Failing(g[n].items)
  <2>1. n \in 0..n
    BY <1>0, <1>1
  <2>2. g[n].rest = {}
    <3>1. Cardinality(g[n].rest) = 0 /\ IsFiniteSet(g[n].rest)
      BY <1>0, <1>1, <1>3, <2>1
    <3>. QED
      BY <3>1, FS_EmptySet
  <2>3. CASE Same(n)
    <3>1. \A i \in G : i \notin (n + 1)..N
      BY <1>0, <1>1
    <3>. QED
      BY <2>2, <2>3, <3>1
  <2>. HIDE DEF Same
  <2>. QED
    BY <1>7, <2>1, <2>3
<1>. HIDE DEF Bad, Same, Done
<1>. DEFINE Left(k) == f[k].rest \cap G = {} /\ Failing(f[k].items) = Failing(g[n].items)
            Off == {k \in n..N : ~Left(k)}
<1>9. Off = {}
  <2>. SUFFICES ASSUME Off # {}
                PROVE  FALSE
    OBVIOUS
  <2>1. PICK m \in Off : \A k \in Off : m <= k
    <3>1. Off \in SUBSET Nat
      BY <1>0, <1>1
    <3>. HIDE DEF Off
    <3>. QED
      BY <3>1, LeastNat
  <2>2. m \in n..N /\ ~Left(m)
    OBVIOUS
  <2>3. m # n
    BY <1>8, <2>2
  <2>4. m \in 1..N /\ Left(m - 1)
    <3>1. m - 1 \in n..N /\ ~(m <= m - 1) /\ m \in 1..N
      BY <1>0, <1>1, <2>2, <2>3
    <3>. HIDE DEF Left
    <3>. QED
      BY <2>1, <3>1
  <2>. QED
    BY <1>0, <1>5, <2>2, <2>4
<1>. QED
  <2>1. N \in n..N
    BY <1>0, <1>1
  <2>. QED
    BY <1>9, <2>1

(* A sequence is its beginning and the rest.                                  *)
LEMMA CatIs ==
  ASSUME NEW Q, NEW x \in Seq(Q), NEW y \in Seq(Q), NEW z,
         z = [i \in 1..(Len(x) + Len(y)) |-> z[i]],
         \A i \in 1..Len(x) : z[i] = x[i],
         \A i \in (Len(x) + 1)..(Len(x) + Len(y)) : z[i] = y[i - Len(x)]
  PROVE  z = x \o y /\ z \in Seq(Q)
<1>. DEFINE a == Len(x)
            n == Len(x) + Len(y)
<1>1. a \in Nat /\ Len(y) \in Nat /\ n \in Nat /\ n = a + Len(y)
  OBVIOUS
<1>2. /\ x \o y \in Seq(Q) /\ Len(x \o y) = n
      /\ \A i \in 1..a : (x \o y)[i] = x[i]
      /\ \A i \in (a + 1)..n : (x \o y)[i] = y[i - a]
  BY <1>1
<1>3. \A s \in Seq(Q) : s = [i \in 1..Len(s) |-> s[i]]
  OBVIOUS
<1>4. \A i \in 1..n : i \in 1..a \/ i \in (a + 1)..n
  BY <1>1
<1>5. \A i \in 1..n : z[i] = (x \o y)[i]
  BY <1>2, <1>4
<1>6. z = x \o y
  <2>1. x \o y = [i \in 1..n |-> (x \o y)[i]]
    BY <1>2, <1>3
  <2>. QED
    BY <1>5, <2>1
<1>. QED
  BY <1>2, <1>6

(* The retrievals for failures are served first, and of each kind in the      *)
(* order they were made (KnowledgeContextSource.get).                         *)
LEMMA UrgentFirst ==
  ASSUME NEW late \in Seq(Retrievals), NEW early \in Seq(Retrievals),
         \A i \in DOMAIN late : ~late[i].need.urgent,
         \A i \in DOMAIN early : early[i].need.urgent
  PROVE  Ordered(late \o early) = early \o late
<1>. DEFINE inputs == late \o early
            a == Len(late)
            b == Len(early)
            Q == Seq(Retrievals)
            Ones(s) == [i \in DOMAIN s |-> <<s[i]>>]
            None(n) == [i \in 1..n |-> <<>>]
            Those(urgent) == [i \in DOMAIN inputs |->
                                 IF inputs[i].need.urgent = urgent THEN <<inputs[i]>> ELSE <<>>]
            yes == Those(TRUE)
            no == Those(FALSE)
<1>1. /\ a \in Nat /\ b \in Nat /\ DOMAIN late = 1..a /\ DOMAIN early = 1..b
      /\ \A i \in 1..a : late[i] \in Retrievals /\ late[i].need.urgent = FALSE
      /\ \A i \in 1..b : early[i] \in Retrievals /\ early[i].need.urgent = TRUE
  <2>1. \A r \in Retrievals : r.need.urgent \in BOOLEAN
    BY DEF Retrievals, NeedType
  <2>. QED
    BY <2>1
<1>2. /\ inputs \in Seq(Retrievals) /\ DOMAIN inputs = 1..(a + b)
      /\ \A i \in 1..a : inputs[i] = late[i]
      /\ \A i \in (a + 1)..(a + b) : inputs[i] = early[i - a] /\ i - a \in 1..b
  BY <1>1
<1>3. Ordered(inputs) = FlattenSeq(yes \o no)
  BY DEF Ordered
<1>. HIDE DEF inputs, a, b
<1>4. <<>> \in Q /\ \A r \in Retrievals : <<r>> \in Q
  OBVIOUS
<1>5. /\ \A i \in 1..a : yes[i] = <<>> /\ no[i] = <<late[i]>>
      /\ \A i \in (a + 1)..(a + b) : yes[i] = <<early[i - a]>> /\ no[i] = <<>>
  <2>1. ASSUME NEW i \in 1..a
        PROVE  yes[i] = <<>> /\ no[i] = <<late[i]>>
    <3>1. i \in 1..(a + b)
      BY <1>1
    <3>. QED
      BY <1>1, <1>2, <3>1
  <2>2. ASSUME NEW i \in (a + 1)..(a + b)
        PROVE  yes[i] = <<early[i - a]>> /\ no[i] = <<>>
    <3>1. i \in 1..(a + b)
      BY <1>1
    <3>. QED
      BY <1>1, <1>2, <3>1
  <2>. QED
    BY <2>1, <2>2
<1>6. yes = [i \in 1..(a + b) |-> yes[i]] /\ no = [i \in 1..(a + b) |-> no[i]]
  BY <1>2
<1>. HIDE DEF yes, no, Those, Q
<1>7. /\ Ones(late) \in Seq(Q) /\ Len(Ones(late)) = a /\ \A i \in 1..a : Ones(late)[i] = <<late[i]>>
      /\ Ones(early) \in Seq(Q) /\ Len(Ones(early)) = b /\ \A i \in 1..b : Ones(early)[i] = <<early[i]>>
  <2>1. Ones(late) = [i \in 1..a |-> <<late[i]>>] /\ \A i \in 1..a : <<late[i]>> \in Q
    BY <1>1, <1>4
  <2>2. Ones(early) = [i \in 1..b |-> <<early[i]>>] /\ \A i \in 1..b : <<early[i]>> \in Q
    BY <1>1, <1>4
  <2>. HIDE DEF Ones
  <2>. QED
    BY <1>1, <2>1, <2>2
<1>8. ASSUME NEW n \in Nat
      PROVE  None(n) \in Seq(Q) /\ Len(None(n)) = n /\ \A i \in 1..n : None(n)[i] = <<>>
  BY <1>4
<1>9. FlattenSeq(None(a)) = <<>> /\ FlattenSeq(None(b)) = <<>>
  BY <1>1, FlattenNone
<1>10. FlattenSeq(Ones(late)) = late /\ FlattenSeq(Ones(early)) = early
  BY FlattenOnes
<1>11. None(a) \in Seq(Q) /\ Len(None(a)) = a /\ None(b) \in Seq(Q) /\ Len(None(b)) = b
  BY <1>1, <1>8
<1>12. (\A i \in 1..a : None(a)[i] = <<>>) /\ (\A i \in 1..b : None(b)[i] = <<>>)
  BY <1>1, <1>8
<1>. HIDE DEF Ones, None
<1>13. yes = None(a) \o Ones(early) /\ yes \in Seq(Q)
  <2>1. \A i \in (a + 1)..(a + b) : yes[i] = Ones(early)[i - a]
    BY <1>2, <1>5, <1>7
  <2>2. \A i \in 1..a : yes[i] = None(a)[i]
    BY <1>5, <1>12
  <2>. DEFINE x == None(a)
              y == Ones(early)
  <2>3. x \in Seq(Q) /\ y \in Seq(Q) /\ Len(x) = a /\ Len(y) = b
    BY <1>7, <1>11
  <2>. HIDE DEF x, y
  <2>4. /\ yes = [i \in 1..(Len(x) + Len(y)) |-> yes[i]]
        /\ \A i \in 1..Len(x) : yes[i] = x[i]
        /\ \A i \in (Len(x) + 1)..(Len(x) + Len(y)) : yes[i] = y[i - Len(x)]
    BY <1>6, <2>1, <2>2, <2>3 DEF x, y
  <2>5. yes = x \o y /\ yes \in Seq(Q)
    BY <2>3, <2>4, CatIs
  <2>. QED
    BY <2>5 DEF x, y
<1>14. no = Ones(late) \o None(b) /\ no \in Seq(Q)
  <2>1. \A i \in (a + 1)..(a + b) : no[i] = None(b)[i - a]
    BY <1>2, <1>5, <1>12
  <2>2. \A i \in 1..a : no[i] = Ones(late)[i]
    BY <1>5, <1>7
  <2>. DEFINE x == Ones(late)
              y == None(b)
  <2>3. x \in Seq(Q) /\ y \in Seq(Q) /\ Len(x) = a /\ Len(y) = b
    BY <1>7, <1>11
  <2>. HIDE DEF x, y
  <2>4. /\ no = [i \in 1..(Len(x) + Len(y)) |-> no[i]]
        /\ \A i \in 1..Len(x) : no[i] = x[i]
        /\ \A i \in (Len(x) + 1)..(Len(x) + Len(y)) : no[i] = y[i - Len(x)]
    BY <1>6, <2>1, <2>2, <2>3 DEF x, y
  <2>5. no = x \o y /\ no \in Seq(Q)
    BY <2>3, <2>4, CatIs
  <2>. QED
    BY <2>5 DEF x, y
<1>15. FlattenSeq(yes) = <<>> \o early
  <2>1. None(a) \in Seq(Seq(Retrievals)) /\ Ones(early) \in Seq(Seq(Retrievals))
    BY <1>7, <1>11 DEF Q
  <2>2. FlattenSeq(None(a) \o Ones(early)) = FlattenSeq(None(a)) \o FlattenSeq(Ones(early))
    BY <2>1, FlattenCat
  <2>. QED
    BY <1>9, <1>10, <1>13, <2>2
<1>16. FlattenSeq(no) = late \o <<>>
  <2>1. None(b) \in Seq(Seq(Retrievals)) /\ Ones(late) \in Seq(Seq(Retrievals))
    BY <1>7, <1>11 DEF Q
  <2>2. FlattenSeq(Ones(late) \o None(b)) = FlattenSeq(Ones(late)) \o FlattenSeq(None(b))
    BY <2>1, FlattenCat
  <2>. QED
    BY <1>9, <1>10, <1>14, <2>2
<1>17. FlattenSeq(yes \o no) = FlattenSeq(yes) \o FlattenSeq(no)
  BY <1>13, <1>14, FlattenCat DEF Q
<1>18. <<>> \o early = early /\ late \o <<>> = late
  OBVIOUS
<1>. QED
  BY <1>3, <1>15, <1>16, <1>17, <1>18 DEF inputs

(* A plain retrieval adds no text to the context (ExternalContextSource.get). *)
Dumped == {Dump(r) : r \in Retrievals}
LEMMA DumpsKeep ==
  ASSUME NEW late \in Seq(Retrievals), NEW early \in Seq(Retrievals),
         \A i \in DOMAIN late : ~late[i].ranked
  PROVE  Dumps(late \o early) = Dumps(early) /\ Dumps(early) \in Seq(Dumped)
<1>. DEFINE inputs == late \o early
            a == Len(late)
            b == Len(early)
            Q == Seq(Dumped)
            None == [i \in 1..a |-> <<>>]
            Parts(s) == [i \in DOMAIN s |-> IF s[i].ranked THEN <<Dump(s[i])>> ELSE <<>>]
            all == Parts(inputs)
            some == Parts(early)
<1>1. /\ a \in Nat /\ b \in Nat /\ DOMAIN late = 1..a /\ DOMAIN early = 1..b
      /\ \A i \in 1..b : early[i] \in Retrievals
  OBVIOUS
<1>2. /\ DOMAIN inputs = 1..(a + b)
      /\ \A i \in 1..a : inputs[i] = late[i]
      /\ \A i \in (a + 1)..(a + b) : inputs[i] = early[i - a] /\ i - a \in 1..b
  BY <1>1
<1>3. Dumps(inputs) = FlattenSeq(all) /\ Dumps(early) = FlattenSeq(some)
  BY DEF Dumps
<1>. HIDE DEF inputs, a, b
<1>4. <<>> \in Q /\ \A r \in Retrievals : <<Dump(r)>> \in Q
  BY DEF Dumped
<1>5. /\ all = [i \in 1..(a + b) |-> all[i]] /\ \A i \in 1..a : all[i] = <<>>
      /\ \A i \in (a + 1)..(a + b) : all[i] = some[i - a]
  <2>1. ASSUME NEW i \in 1..a
        PROVE  all[i] = <<>>
    <3>1. i \in 1..(a + b)
      BY <1>1
    <3>. QED
      BY <1>1, <1>2, <3>1
  <2>2. ASSUME NEW i \in (a + 1)..(a + b)
        PROVE  all[i] = some[i - a]
    <3>1. i \in 1..(a + b)
      BY <1>1
    <3>. QED
      BY <1>1, <1>2, <3>1
  <2>. QED
    BY <1>2, <2>1, <2>2
<1>6. some \in Seq(Q) /\ Len(some) = b
  <2>1. some = [i \in 1..b |-> some[i]]
    BY <1>1
  <2>2. \A i \in 1..b : some[i] \in Q
    <3>. HIDE DEF Q
    <3>. QED
      BY <1>1, <1>4
  <2>. HIDE DEF some, Q
  <2>. QED
    BY <1>1, <2>1, <2>2
<1>. HIDE DEF Q
<1>7. None \in Seq(Q) /\ Len(None) = a /\ \A i \in 1..a : None[i] = <<>>
  BY <1>1, <1>4
<1>8. FlattenSeq(None) = <<>>
  BY <1>1, FlattenNone
<1>. HIDE DEF None, all, some, Parts
<1>9. all = None \o some
  <2>1. /\ all = [i \in 1..(Len(None) + Len(some)) |-> all[i]]
        /\ \A i \in 1..Len(None) : all[i] = None[i]
        /\ \A i \in (Len(None) + 1)..(Len(None) + Len(some)) : all[i] = some[i - Len(None)]
    BY <1>5, <1>6, <1>7
  <2>2. None \in Seq(Q) /\ some \in Seq(Q)
    BY <1>6, <1>7
  <2>3. all = None \o some /\ all \in Seq(Q)
    BY <2>1, <2>2, CatIs
  <2>. QED
    BY <2>3
<1>10. FlattenSeq(all) = FlattenSeq(None) \o FlattenSeq(some) /\ FlattenSeq(some) \in Seq(Dumped)
  BY <1>6, <1>7, <1>9, FlattenCat, FlattenIn DEF Q
<1>11. \A q \in Seq(Dumped) : <<>> \o q = q
  OBVIOUS
<1>. QED
  BY <1>3, <1>8, <1>10, <1>11 DEF inputs

(* What is given for the task comes after what is given for failures, and     *)
(* changes none of it (KnowledgeContextSource.get).                           *)
Calm == {g \in Givens : ~g.urgent}
LEMMA GivenIn ==
  ASSUME NEW need \in NeedType, NEW R \in SUBSET Items, NEW kept \in Seq(R)
  PROVE  /\ Given(need, kept) \in Seq(Givens)
         /\ ~need.urgent => Given(need, kept) \in Seq(Calm)
<1>1. Len(kept) \in Nat /\ DOMAIN kept = 1..Len(kept) /\ \A i \in 1..Len(kept) : kept[i] \in Items
  OBVIOUS
<1>2. Given(need, kept) = [i \in 1..Len(kept) |-> [need |-> need.name, urgent |-> need.urgent,
                                                   item |-> kept[i]]]
  BY <1>1 DEF Given
<1>3. \A i \in 1..Len(kept) :
         /\ [need |-> need.name, urgent |-> need.urgent, item |-> kept[i]] \in Givens
         /\ ~need.urgent =>
               [need |-> need.name, urgent |-> need.urgent, item |-> kept[i]] \in Calm
  BY <1>1 DEF Givens, Calm, NeedType
<1>4. \A D, n : n \in Nat => \A h \in [1..n -> D] : h \in Seq(D)
  OBVIOUS
<1>5. Given(need, kept) \in [1..Len(kept) -> Givens]
  BY <1>2, <1>3
<1>6. ~need.urgent => Given(need, kept) \in [1..Len(kept) -> Calm]
  BY <1>2, <1>3
<1>. QED
  BY <1>1, <1>4, <1>5, <1>6

RoundsOf(served) ==
    CHOOSE x : x = [k \in 0..Len(served) |->
                       IF k = 0 THEN RoundStart ELSE Serve(served[k], x[k - 1])]
LEMMA GetIs ==
  ASSUME NEW inputs
  PROVE  Get(inputs).given =
            FlattenSeq([k \in DOMAIN Ordered(inputs) |->
                           Given(Ordered(inputs)[k].need,
                                 RoundsOf(Ordered(inputs))[Len(Ordered(inputs))].kept[k])])
  BY DEF Get, RoundsOf, RoundStart

LEMMA GetGrows ==
  ASSUME NEW late \in Seq(Retrievals), NEW early \in Seq(Retrievals),
         \A i \in DOMAIN late : IsFiniteSet(late[i].items) /\ ~late[i].need.urgent,
         \A i \in DOMAIN early : IsFiniteSet(early[i].items) /\ early[i].need.urgent
  PROVE  /\ Get(early).given \in Seq(Givens)
         /\ \E q \in Seq(Calm) : Get(late \o early).given = Get(early).given \o q
<1>. DEFINE a == Len(late)
            b == Len(early)
            n == b + a
            all == early \o late
            f == RoundsOf(all)
            g == RoundsOf(early)
            P == [k \in DOMAIN all |-> Given(all[k].need, f[Len(all)].kept[k])]
            Q == [k \in DOMAIN early |-> Given(early[k].need, g[Len(early)].kept[k])]
<1>1. Ordered(late \o early) = all /\ Ordered(early) = early
  <2>1. Ordered(late \o early) = all
    BY UrgentFirst
  <2>2. PICK none \in Seq(Retrievals) : none = <<>> /\ none \o early = early /\ early \o none = early
    <3>1. <<>> \in Seq(Retrievals) /\ <<>> \o early = early /\ early \o <<>> = early
      OBVIOUS
    <3>. QED
      BY <3>1
  <2>3. none \o early = early /\ early \o none = early /\ DOMAIN none = {}
    BY <2>2
  <2>4. Ordered(none \o early) = early \o none
    BY <2>3, UrgentFirst
  <2>. QED
    BY <2>1, <2>3, <2>4
<1>2. Get(late \o early).given = FlattenSeq(P)
  BY <1>1, GetIs
<1>3. Get(early).given = FlattenSeq(Q)
  BY <1>1, GetIs
<1>4. /\ a \in Nat /\ b \in Nat /\ n \in Nat /\ Len(all) = n /\ n = b + a /\ DOMAIN all = 1..n
      /\ DOMAIN early = 1..b /\ DOMAIN late = 1..a
      /\ \A i \in 1..b : all[i] = early[i]
      /\ \A i \in (b + 1)..n : all[i] = late[i - b] /\ i - b \in 1..a
  OBVIOUS
<1>5. /\ \A i \in 1..b : early[i] \in Retrievals /\ IsFiniteSet(early[i].items)
      /\ \A i \in 1..a : late[i] \in Retrievals /\ IsFiniteSet(late[i].items) /\ ~late[i].need.urgent
  BY <1>4
<1>6. \A i \in 1..n : i \in 1..b \/ i \in (b + 1)..n
  BY <1>4
<1>. HIDE DEF a, b, n, all
<1>7. \A i \in 1..n : /\ all[i].items \in SUBSET Items /\ IsFiniteSet(all[i].items)
                            /\ all[i].need \in NeedType
  <2>1. \A i \in 1..n : all[i] \in Retrievals /\ IsFiniteSet(all[i].items)
    BY <1>4, <1>5, <1>6
  <2>. QED
    BY <2>1 DEF Retrievals
<1>8. IsServing(f, all, RoundStart, n)
  <2>1. \E x : IsServing(x, all, RoundStart, n)
    BY <1>4, ServingExists
  <2>. QED
    BY <1>4, <2>1 DEF IsServing, RoundsOf
<1>9. IsServing(g, early, RoundStart, b)
  <2>1. \E x : IsServing(x, early, RoundStart, b)
    BY <1>4, ServingExists
  <2>. QED
    BY <1>4, <2>1 DEF IsServing, RoundsOf, b
<1>. HIDE DEF f, g
<1>10. b \in 0..b /\ b \in 0..n /\ n \in 0..n /\ n \in Nat
  BY <1>4
<1>11. /\ \A k \in 0..n : /\ Filled(f[k].kept, all, k)
                                /\ \A j \in 1..k : f[k].kept[j] = f[j].kept[j]
       /\ \A k \in 0..b : /\ Filled(g[k].kept, early, k)
                          /\ \A j \in 1..k : g[k].kept[j] = g[j].kept[j]
  <2>1. \A k \in 0..n : /\ Filled(f[k].kept, all, k)
                              /\ \A j \in 1..k : f[k].kept[j] = f[j].kept[j]
    BY <1>7, <1>8, <1>10, RoundsFill
  <2>2. \A k \in 1..b : early[k].items \in SUBSET Items /\ IsFiniteSet(early[k].items)
    BY <1>5 DEF Retrievals
  <2>3. \A k \in 0..b : /\ Filled(g[k].kept, early, k)
                        /\ \A j \in 1..k : g[k].kept[j] = g[j].kept[j]
    BY <1>4, <1>9, <2>2, RoundsFill
  <2>. QED
    BY <2>1, <2>3
<1>. DEFINE Bad == {k \in 0..b : f[k] # g[k]}
<1>12. Bad = {}
  <2>. SUFFICES ASSUME Bad # {}
                PROVE  FALSE
    OBVIOUS
  <2>1. PICK m \in Bad : \A k \in Bad : m <= k
    <3>1. Bad \in SUBSET Nat
      BY <1>4
    <3>. HIDE DEF Bad
    <3>. QED
      BY <3>1, LeastNat
  <2>2. m \in 0..b /\ m \in Nat /\ f[m] # g[m]
    BY <1>4
  <2>3. /\ f[0] = RoundStart /\ \A k \in 1..n : f[k] = Serve(all[k], f[k - 1])
        /\ g[0] = RoundStart /\ \A k \in 1..b : g[k] = Serve(early[k], g[k - 1])
    BY <1>4, <1>8, <1>9, <1>10 DEF IsServing
  <2>4. m # 0
    BY <2>2, <2>3
  <2>5. m \in 1..b /\ m \in 1..n /\ f[m - 1] = g[m - 1]
    <3>1. m - 1 \in 0..b /\ ~(m <= m - 1) /\ m \in 1..b /\ m \in 1..n
      BY <1>4, <2>2, <2>4
    <3>. QED
      BY <2>1, <3>1
  <2>. QED
    BY <1>4, <2>2, <2>3, <2>5
<1>13. ASSUME NEW k \in 1..b
       PROVE  f[n].kept[k] = g[b].kept[k]
  <2>1. k \in 1..n /\ k \in 0..b
    BY <1>4
  <2>2. f[n].kept[k] = f[k].kept[k] /\ g[b].kept[k] = g[k].kept[k]
    BY <1>10, <1>11, <2>1
  <2>3. f[k] = g[k]
    BY <1>12, <2>1
  <2>. QED
    BY <2>2, <2>3
<1>. HIDE DEF Bad
<1>14. /\ P = [k \in 1..n |-> P[k]] /\ Q = [k \in 1..b |-> Q[k]]
       /\ \A k \in 1..b : P[k] = Q[k]
       /\ \A k \in 1..n : P[k] \in Seq(Givens)
       /\ \A k \in (b + 1)..n : P[k] \in Seq(Calm)
  <2>1. \A k \in 1..n : P[k] = Given(all[k].need, f[n].kept[k])
    BY <1>4
  <2>2. \A k \in 1..b : Q[k] = Given(early[k].need, g[b].kept[k])
    BY <1>4 DEF b
  <2>3. \A k \in 1..b : P[k] = Q[k]
    <3>1. \A k \in 1..b : k \in 1..n
      BY <1>4
    <3>. HIDE DEF P, Q
    <3>. QED
      BY <1>4, <1>13, <2>1, <2>2, <3>1
  <2>4. \A k \in 1..n : f[n].kept[k] \in Seq(all[k].items)
    BY <1>10, <1>11 DEF Filled
  <2>5. ASSUME NEW k \in 1..n
        PROVE  P[k] \in Seq(Givens) /\ (~all[k].need.urgent => P[k] \in Seq(Calm))
    <3>. HIDE DEF P
    <3>. QED
      BY <1>7, <2>1, <2>4, GivenIn
  <2>6. \A k \in (b + 1)..n : k \in 1..n /\ ~all[k].need.urgent
    BY <1>4, <1>5
  <2>7. P = [k \in 1..n |-> P[k]] /\ Q = [k \in 1..b |-> Q[k]]
    BY <1>4
  <2>. HIDE DEF P, Q
  <2>. QED
    BY <2>3, <2>5, <2>6, <2>7
<1>. HIDE DEF P, Q
<1>. DEFINE R == [k \in 1..a |-> P[b + k]]
            S == Seq(Givens)
<1>15. Q \in Seq(S) /\ Len(Q) = b
  <2>1. \A k \in 1..b : Q[k] \in S
    <3>1. \A k \in 1..b : k \in 1..n
      BY <1>4
    <3>. QED
      BY <1>14, <3>1
  <2>. HIDE DEF S
  <2>2. \A h \in [1..b -> S] : h \in Seq(S) /\ Len(h) = b
    BY <1>4
  <2>3. Q \in [1..b -> S]
    BY <1>14, <2>1
  <2>. QED
    BY <2>2, <2>3
<1>16. \A k \in 1..a : b + k \in (b + 1)..n /\ b + k \in 1..n
  BY <1>4
<1>17. R \in Seq(S) /\ R \in Seq(Seq(Calm)) /\ Len(R) = a /\ \A k \in 1..a : R[k] = P[b + k]
  <2>. DEFINE C == Seq(Calm)
  <2>1. \A k \in 1..a : P[b + k] \in S /\ P[b + k] \in C
    BY <1>14, <1>16
  <2>. HIDE DEF S, C
  <2>2. \A D : \A h \in [1..a -> D] : h \in Seq(D) /\ Len(h) = a
    BY <1>4
  <2>3. R \in [1..a -> S] /\ R \in [1..a -> C] /\ \A k \in 1..a : R[k] = P[b + k]
    BY <2>1
  <2>. QED
    BY <2>2, <2>3 DEF C
<1>18. P = Q \o R
  <2>1. \A k \in (b + 1)..n : P[k] = R[k - b]
    <3>1. \A k \in (b + 1)..n : k - b \in 1..a /\ b + (k - b) = k
      BY <1>4
    <3>. HIDE DEF R
    <3>. QED
      BY <1>17, <3>1
  <2>. HIDE DEF R, S
  <2>2. /\ P = [i \in 1..(Len(Q) + Len(R)) |-> P[i]]
        /\ \A i \in 1..Len(Q) : P[i] = Q[i]
        /\ \A i \in (Len(Q) + 1)..(Len(Q) + Len(R)) : P[i] = R[i - Len(Q)]
    BY <1>4, <1>14, <1>15, <1>17, <2>1
  <2>3. Q \in Seq(S) /\ R \in Seq(S)
    BY <1>15, <1>17
  <2>4. P = Q \o R /\ P \in Seq(S)
    BY <2>2, <2>3, CatIs
  <2>. QED
    BY <2>4
<1>. HIDE DEF R
<1>19. FlattenSeq(P) = FlattenSeq(Q) \o FlattenSeq(R)
  <2>1. Q \in Seq(Seq(Givens)) /\ R \in Seq(Seq(Givens))
    BY <1>15, <1>17 DEF S
  <2>. QED
    BY <1>18, <2>1, FlattenCat
<1>20. FlattenSeq(R) \in Seq(Calm)
  BY <1>17, FlattenIn
<1>21. FlattenSeq(Q) \in Seq(Givens)
  <2>1. Q \in Seq(Seq(Givens))
    BY <1>15 DEF S
  <2>. QED
    BY <2>1, FlattenIn
<1>. QED
  BY <1>2, <1>3, <1>19, <1>20, <1>21

(* What else a turn tells has a place among its items.                        *)
OtherItems == [kind : {"other"}, priority : Nat, size : Nat, head : Nat]
LEMMA OthersFit ==
  ASSUME NEW w \in Surroundings
  PROVE  Others(w) \in Seq(OtherItems)
<1>1. w.excerpts \in Nat /\ \A l \in Labels : w.sizes[l].size \in Nat /\ w.sizes[l].head \in Nat
  BY KnowledgeAssumption DEF SurroundingType
<1>2. ASSUME NEW l \in Labels, NEW p \in Nat
      PROVE  Other(w, l, p) \in OtherItems
  BY <1>1 DEF Other, OtherItems
<1>3. \A x, y \in Seq(OtherItems) : x \o y \in Seq(OtherItems)
  OBVIOUS
<1>4. \A x \in OtherItems : <<x>> \in Seq(OtherItems)
  OBVIOUS
<1>5. \A x, y \in OtherItems : <<x, y>> \in Seq(OtherItems)
  OBVIOUS
<1>6. <<>> \in Seq(OtherItems)
  OBVIOUS
<1>7. <<PolicyItem(w)>> \in Seq(OtherItems)
  <2>1. PolicyItem(w) \in OtherItems
    BY <1>2 DEF PolicyItem, Labels
  <2>. QED
    BY <1>4, <2>1
<1>8. RetainedItems(w) \in Seq(OtherItems)
  <2>1. Other(w, "retained", 6) \in OtherItems /\ Other(w, "excerpt", 7) \in OtherItems
    BY <1>2 DEF Labels
  <2>. DEFINE x == Other(w, "excerpt", 7)
  <2>2. [i \in 1..w.excerpts |-> x] \in Seq(OtherItems)
    <3>1. x \in OtherItems
      BY <2>1
    <3>. HIDE DEF x
    <3>. QED
      BY <1>1, <3>1
  <2>3. <<Other(w, "retained", 6)>> \in Seq(OtherItems)
    BY <1>4, <2>1
  <2>4. <<Other(w, "retained", 6)>> \o [i \in 1..w.excerpts |-> x] \in Seq(OtherItems)
    BY <1>3, <2>2, <2>3
  <2>. QED
    BY <1>6, <2>4 DEF RetainedItems
<1>9. ProjectItems(w) \in Seq(OtherItems)
  <2>1. Other(w, "overview", 10) \in OtherItems /\ Other(w, "structure", 20) \in OtherItems
    BY <1>2 DEF Labels
  <2>. QED
    BY <1>5, <2>1 DEF ProjectItems
<1>10. RunItems(w) \in Seq(OtherItems)
  <2>1. /\ Other(w, "state", 30) \in OtherItems /\ Other(w, "builds", 40) \in OtherItems
        /\ Other(w, "log", 45) \in OtherItems /\ Other(w, "artifact", 50) \in OtherItems
    BY <1>2 DEF Labels
  <2>. DEFINE x == <<Other(w, "state", 30), Other(w, "builds", 40)>>
              y == IF w.built THEN <<Other(w, "log", 45)>> ELSE <<>>
              z == IF w.artifact THEN <<Other(w, "artifact", 50)>> ELSE <<>>
  <2>2. x \in Seq(OtherItems) /\ y \in Seq(OtherItems) /\ z \in Seq(OtherItems)
    BY <1>4, <1>5, <1>6, <2>1
  <2>3. RunItems(w) = x \o y \o z
    BY DEF RunItems
  <2>. HIDE DEF x, y, z
  <2>. QED
    BY <1>3, <2>2, <2>3
<1>. QED
  BY <1>3, <1>7, <1>8, <1>9, <1>10 DEF Others

(* The bundle is where its steps end.                                         *)
StepsOf(items) ==
    CHOOSE x : x = [k \in 0..Len(items) |->
                       IF k = 0
                       THEN [rest |-> DOMAIN items, total |-> 0, full |-> FALSE, items |-> <<>>]
                       ELSE FitNext(items, x[k - 1])]
LEMMA BundleIs ==
  ASSUME NEW T, NEW items \in Seq(T)
  PROVE  /\ Bundle(items) = StepsOf(items)[Len(items)].items
         /\ IsFitting(StepsOf(items), items, BundleStart(Len(items)), Len(items))
<1>1. Bundle(items) = StepsOf(items)[Len(items)].items
  BY DEF Bundle, StepsOf
<1>2. Len(items) \in Nat /\ DOMAIN items = 1..Len(items)
  OBVIOUS
<1>3. \E f : IsFitting(f, items, BundleStart(Len(items)), Len(items))
  BY <1>2, FittingExists
<1>4. IsFitting(StepsOf(items), items, BundleStart(Len(items)), Len(items))
  BY <1>2, <1>3 DEF IsFitting, StepsOf, BundleStart
<1>. QED
  BY <1>1, <1>4

(* What is retrieved for the task takes nothing away from what is delivered   *)
(* for failures (ContextManager.collect).                                     *)
LEMMA AssembleKeeps ==
  ASSUME NEW others \in Seq(OtherItems),
         NEW late \in Seq(Retrievals), NEW early \in Seq(Retrievals),
         \A i \in DOMAIN late : /\ IsFiniteSet(late[i].items)
                                /\ ~late[i].need.urgent /\ ~late[i].ranked,
         \A i \in DOMAIN early : IsFiniteSet(early[i].items) /\ early[i].need.urgent
  PROVE  Failing(Assemble(others, Get(late \o early).given, late \o early)) =
            Failing(Assemble(others, Get(early).given, early))
<1>. DEFINE less == Get(early).given
            more == Get(late \o early).given
            c == others \o Dumps(early)
            kB == [i \in DOMAIN less |-> KnowledgeItem(less[i], i)]
            kA == [i \in DOMAIN more |-> KnowledgeItem(more[i], i)]
            A == c \o kA
            B == c \o kB
            T == OtherItems \cup Dumped \cup {KnowledgeItem(g, i) : g \in Givens, i \in Nat}
<1>1. less \in Seq(Givens) /\ \E q \in Seq(Calm) : more = less \o q
  BY GetGrows
<1>2. PICK q \in Seq(Calm) : more = less \o q
  BY <1>1
<1>3. Dumps(late \o early) = Dumps(early) /\ Dumps(early) \in Seq(Dumped)
  BY DumpsKeep
<1>4. /\ Assemble(others, more, late \o early) = Bundle(A)
      /\ Assemble(others, less, early) = Bundle(B)
  BY <1>3 DEF Assemble
<1>. DEFINE C == Len(c)
            b == Len(less)
            d == Len(q)
            n == C + b
            N == n + d
<1>. HIDE DEF less, more
<1>5. \A X, Y : \A s \in Seq(X) : X \subseteq Y => s \in Seq(Y)
  OBVIOUS
<1>6. c \in Seq(OtherItems \cup Dumped)
  <2>. DEFINE X == OtherItems \cup Dumped
  <2>1. others \in Seq(X) /\ Dumps(early) \in Seq(X)
    <3>1. OtherItems \subseteq X /\ Dumped \subseteq X
      OBVIOUS
    <3>. HIDE DEF X
    <3>. QED
      BY <1>3, <1>5, <3>1
  <2>. HIDE DEF X
  <2>2. \A x, y \in Seq(X) : x \o y \in Seq(X)
    OBVIOUS
  <2>. QED
    BY <2>1, <2>2 DEF X
<1>7. \A x \in OtherItems \cup Dumped : x.kind \in {"other", "text"} /\ x.priority \in Nat
  <2>1. \A x \in OtherItems : x.kind = "other" /\ x.priority \in Nat
    BY DEF OtherItems
  <2>2. \A x \in Dumped : x.kind = "text" /\ x.priority = 100
    BY DEF Dumped, Dump
  <2>. QED
    BY <2>1, <2>2
<1>8. /\ C \in Nat /\ DOMAIN c = 1..C
      /\ \A i \in 1..C : c[i].kind \in {"other", "text"} /\ c[i].priority \in Nat
  <2>. HIDE DEF c
  <2>1. C \in Nat /\ DOMAIN c = 1..C /\ \A i \in 1..C : c[i] \in OtherItems \cup Dumped
    BY <1>6
  <2>. QED
    BY <1>7, <2>1
<1>9. /\ b \in Nat /\ d \in Nat /\ n \in Nat /\ N \in Nat /\ n \in 0..N
      /\ DOMAIN less = 1..b /\ DOMAIN more = 1..(b + d)
      /\ \A i \in 1..b : less[i] \in Givens /\ more[i] = less[i]
      /\ \A i \in (b + 1)..(b + d) : more[i] \in Givens /\ ~more[i].urgent
  <2>1. b \in Nat /\ d \in Nat /\ DOMAIN less = 1..b /\ \A i \in 1..b : less[i] \in Givens
    BY <1>1
  <2>2. Calm \subseteq Givens /\ \A x \in Calm : ~x.urgent
    BY DEF Calm
  <2>3. q \in Seq(Givens) /\ \A i \in 1..d : q[i] \in Calm
    BY <1>5, <2>1, <2>2
  <2>4. /\ DOMAIN more = 1..(b + d) /\ \A i \in 1..b : more[i] = less[i]
        /\ \A i \in (b + 1)..(b + d) : more[i] = q[i - b] /\ i - b \in 1..d
    BY <1>1, <1>2, <2>1, <2>3
  <2>5. \A i \in (b + 1)..(b + d) : more[i] \in Givens /\ ~more[i].urgent
    <3>1. \A i \in (b + 1)..(b + d) : more[i] \in Calm
      BY <2>3, <2>4
    <3>. QED
      BY <2>2, <3>1
  <2>6. d \in Nat
    OBVIOUS
  <2>7. n \in Nat /\ N \in Nat /\ n \in 0..N
    <3>. HIDE DEF b, C, d
    <3>. QED
      BY <1>8, <2>1, <2>6
  <2>. QED
    BY <2>1, <2>4, <2>5, <2>6, <2>7
<1>. HIDE DEF c
<1>10. ASSUME NEW g, NEW i \in Nat \ {0}
       PROVE  /\ KnowledgeItem(g, i).kind = "knowledge" /\ KnowledgeItem(g, i).given = g
              /\ KnowledgeItem(g, i).priority = 34 + i
  BY DEF KnowledgeItem, KnowledgePriority
<1>11. /\ c \in Seq(T) /\ kA \in Seq(T) /\ kB \in Seq(T)
       /\ Len(kA) = b + d /\ Len(kB) = b
       /\ \A i \in 1..(b + d) : kA[i] = KnowledgeItem(more[i], i)
       /\ \A i \in 1..b : kB[i] = KnowledgeItem(less[i], i)
  <2>1. c \in Seq(T)
    <3>1. OtherItems \cup Dumped \subseteq T
      OBVIOUS
    <3>. HIDE DEF T
    <3>. QED
      BY <1>5, <1>6, <3>1
  <2>2. \A i \in 1..(b + d) : more[i] \in Givens
    <3>1. \A i \in 1..(b + d) : i \in 1..b \/ i \in (b + 1)..(b + d)
      BY <1>9
    <3>. QED
      BY <1>9, <3>1
  <2>3. \A i \in 1..(b + d) : KnowledgeItem(more[i], i) \in T
    BY <2>2
  <2>4. \A i \in 1..b : KnowledgeItem(less[i], i) \in T
    BY <1>9
  <2>. HIDE DEF T
  <2>5. kA = [i \in 1..(b + d) |-> KnowledgeItem(more[i], i)]
        /\ kB = [i \in 1..b |-> KnowledgeItem(less[i], i)]
    BY <1>9
  <2>6. \A m \in Nat : \A h \in [1..m -> T] : h \in Seq(T) /\ Len(h) = m
    OBVIOUS
  <2>7. kA \in [1..(b + d) -> T] /\ kB \in [1..b -> T]
    BY <2>3, <2>4, <2>5
  <2>8. kA \in Seq(T) /\ Len(kA) = b + d /\ kB \in Seq(T) /\ Len(kB) = b
    <3>1. b + d \in Nat /\ b \in Nat
      BY <1>9
    <3>. HIDE DEF kA, kB
    <3>. QED
      BY <2>6, <2>7, <3>1
  <2>. QED
    BY <2>1, <2>5, <2>8
<1>. HIDE DEF T, kA, kB
<1>12. /\ A \in Seq(T) /\ Len(A) = N /\ B \in Seq(T) /\ Len(B) = n
       /\ \A i \in 1..C : A[i] = c[i] /\ B[i] = c[i]
       /\ \A i \in (C + 1)..N : A[i] = kA[i - C]
       /\ \A i \in (C + 1)..n : B[i] = kB[i - C]
  <2>1. /\ A \in Seq(T) /\ Len(A) = C + (b + d) /\ B \in Seq(T) /\ Len(B) = C + b
        /\ \A i \in 1..C : A[i] = c[i] /\ B[i] = c[i]
        /\ \A i \in (C + 1)..(C + (b + d)) : A[i] = kA[i - C]
        /\ \A i \in (C + 1)..(C + b) : B[i] = kB[i - C]
    <3>1. \A x, y \in Seq(T) :
             /\ x \o y \in Seq(T) /\ Len(x \o y) = Len(x) + Len(y)
             /\ \A i \in 1..Len(x) : (x \o y)[i] = x[i]
             /\ \A i \in (Len(x) + 1)..(Len(x) + Len(y)) : (x \o y)[i] = y[i - Len(x)]
      OBVIOUS
    <3>2. /\ A \in Seq(T) /\ Len(A) = C + (b + d)
          /\ \A i \in 1..C : A[i] = c[i]
          /\ \A i \in (C + 1)..(C + (b + d)) : A[i] = kA[i - C]
      <4>. HIDE DEF b, d
      <4>. QED
        BY <1>11, <3>1
    <3>3. /\ B \in Seq(T) /\ Len(B) = C + b
          /\ \A i \in 1..C : B[i] = c[i]
          /\ \A i \in (C + 1)..(C + b) : B[i] = kB[i - C]
      <4>. HIDE DEF b, d
      <4>. QED
        BY <1>11, <3>1
    <3>. QED
      BY <3>2, <3>3
  <2>2. C + (b + d) = N
    BY <1>8, <1>9
  <2>. QED
    BY <2>1, <2>2
<1>. HIDE DEF A, B
<1>13. /\ \A i \in (C + 1)..N : /\ i - C \in 1..(b + d) /\ i - C \in Nat \ {0}
                                 /\ 34 + (i - C) \in Nat
                                 /\ i \notin (C + 1)..n => i - C \in (b + 1)..(b + d)
       /\ \A i \in (C + 1)..n : i \in (C + 1)..N /\ i - C \in 1..b
       /\ \A i \in 1..N : i \in 1..C \/ i \in (C + 1)..N
       /\ \A i \in 1..n : i \in 1..C \/ i \in (C + 1)..n
       /\ \A i \in (C + 1)..n : \A j \in (n + 1)..N :
             i \in (C + 1)..N /\ j \in (C + 1)..N /\ 34 + (i - C) < 34 + (j - C)
       /\ (C + 1)..n \in SUBSET (1..n)
  <2>1. C \in Nat /\ b \in Nat /\ d \in Nat
    BY <1>8, <1>9
  <2>. HIDE DEF C, b, d
  <2>. QED
    BY <2>1
<1>14. \A i \in (C + 1)..N : /\ i - C \in 1..(b + d) /\ A[i] = KnowledgeItem(more[i - C], i - C)
                             /\ A[i].kind = "knowledge" /\ A[i].given = more[i - C]
                             /\ A[i].priority = 34 + (i - C)
  <2>1. \A i \in (C + 1)..N : i - C \in 1..(b + d) /\ i - C \in Nat \ {0}
    BY <1>13
  <2>. TAKE i \in (C + 1)..N
  <2>2. A[i] = KnowledgeItem(more[i - C], i - C)
    BY <1>11, <1>12, <2>1
  <2>. DEFINE j == i - C
  <2>3. j \in Nat \ {0} /\ i - C \in 1..(b + d)
    BY <2>1
  <2>. HIDE DEF j
  <2>4. /\ KnowledgeItem(more[j], j).kind = "knowledge"
        /\ KnowledgeItem(more[j], j).given = more[j]
        /\ KnowledgeItem(more[j], j).priority = 34 + j
    BY <1>10, <2>3
  <2>. QED
    BY <2>2, <2>3, <2>4 DEF j
<1>15. Sortable(A, N)
  <2>1. ASSUME NEW i \in 1..N
        PROVE  A[i].priority \in Nat /\ A[i].kind \in {"other", "text", "knowledge"}
    <3>1. CASE i \in 1..C
      BY <1>8, <1>12, <3>1
    <3>2. CASE i \in (C + 1)..N
      <4>1. 34 + (i - C) \in Nat
        BY <1>13, <3>2
      <4>. QED
        BY <1>14, <3>2, <4>1
    <3>. QED
      BY <1>13, <3>1, <3>2
  <2>2. DOMAIN SourceRank = {"other", "text", "knowledge"}
    BY DEF SourceRank
  <2>. QED
    BY <2>1, <2>2 DEF Sortable
<1>16. \A i \in 1..n : A[i] = B[i]
  <2>1. ASSUME NEW i \in (C + 1)..n
        PROVE  A[i] = B[i]
    <3>1. i \in (C + 1)..N /\ i - C \in 1..b
      BY <1>13
    <3>2. A[i] = KnowledgeItem(more[i - C], i - C)
      BY <1>14, <3>1
    <3>3. B[i] = KnowledgeItem(less[i - C], i - C)
      BY <1>11, <1>12, <3>1
    <3>4. more[i - C] = less[i - C]
      BY <1>9, <3>1
    <3>. QED
      BY <3>2, <3>3, <3>4
  <2>. QED
    BY <1>12, <1>13, <2>1
<1>. DEFINE G == (C + 1)..n
<1>17. \A i \in (1..N) \ G : ~Urgent(A[i])
  <2>1. ASSUME NEW i \in 1..C
        PROVE  ~Urgent(A[i])
    BY <1>8, <1>12 DEF Urgent
  <2>2. ASSUME NEW i \in (C + 1)..N, i \notin G
        PROVE  ~Urgent(A[i])
    <3>1. i - C \in (b + 1)..(b + d)
      BY <1>13, <2>2
    <3>. QED
      BY <1>9, <1>14, <3>1 DEF Urgent
  <2>. QED
    BY <1>13, <2>1, <2>2
<1>18. \A i \in G : \A j \in (n + 1)..N : Earlier(A, i, j)
  <2>1. ASSUME NEW i \in G, NEW j \in (n + 1)..N
        PROVE  Earlier(A, i, j)
    <3>1. i \in (C + 1)..N /\ j \in (C + 1)..N /\ 34 + (i - C) < 34 + (j - C)
      BY <1>13
    <3>2. A[i].priority < A[j].priority
      BY <1>14, <3>1
    <3>. QED
      BY <3>2 DEF Earlier
  <2>. QED
    BY <2>1
<1>19. G \in SUBSET (1..n)
  BY <1>13
<1>20. /\ Bundle(A) = StepsOf(A)[N].items /\ IsFitting(StepsOf(A), A, BundleStart(N), N)
       /\ Bundle(B) = StepsOf(B)[n].items /\ IsFitting(StepsOf(B), B, BundleStart(n), n)
  <2>1. /\ Bundle(A) = StepsOf(A)[Len(A)].items
        /\ IsFitting(StepsOf(A), A, BundleStart(Len(A)), Len(A))
    BY <1>12, BundleIs
  <2>2. /\ Bundle(B) = StepsOf(B)[Len(B)].items
        /\ IsFitting(StepsOf(B), B, BundleStart(Len(B)), Len(B))
    BY <1>12, BundleIs
  <2>. QED
    BY <1>12, <2>1, <2>2
<1>. HIDE DEF C, b, d, n, N, G
<1>21. Failing(StepsOf(A)[N].items) = Failing(StepsOf(B)[n].items)
  <2>. DEFINE f == StepsOf(A)
              g == StepsOf(B)
  <2>1. IsFitting(f, A, BundleStart(N), N) /\ IsFitting(g, B, BundleStart(n), n)
    BY <1>20
  <2>. HIDE DEF f, g
  <2>2. N \in Nat /\ n \in 0..N
    BY <1>9
  <2>3. Failing(f[N].items) = Failing(g[n].items)
    <3>1. Prolongs(A, N, B, n, G)
      BY <1>15, <1>16, <1>17, <1>18, <1>19 DEF Prolongs
    <3>. QED
      BY <2>1, <2>2, <3>1, BundleKeeps
  <2>. QED
    BY <2>3 DEF f, g
<1>. QED
  BY <1>4, <1>20, <1>21 DEF A, B, less, more

LEMMA BuildUndisturbed ==
  ASSUME KnowledgeIInv, NEW w \in Surroundings, Build(w)
  PROVE  FailureKnowledgeIsUndisturbed'
<1>. DEFINE inputs == external \o repairs
            others == Others(w)
<1>1. /\ external \in Seq(Retrievals) /\ repairs \in Seq(Retrievals)
      /\ \A i \in DOMAIN external : /\ IsFiniteSet(external[i].items)
                                    /\ ~external[i].need.urgent /\ ~external[i].ranked
      /\ \A i \in DOMAIN repairs : IsFiniteSet(repairs[i].items) /\ repairs[i].need.urgent
  BY DEF KnowledgeIInv, RetrievalsFit, Fits
<1>2. others \in Seq(OtherItems)
  BY OthersFit
<1>3. /\ context' = [given |-> Get(inputs).given, others |-> others,
                     items |-> Assemble(others, Get(inputs).given, inputs)]
      /\ repairs' = repairs
  BY DEF Build, repair
<1>4. context'.others = others /\ context'.items = Assemble(others, Get(inputs).given, inputs)
  BY <1>3
<1>5. Failing(Assemble(others, Get(inputs).given, inputs)) =
         Failing(Assemble(others, Get(repairs).given, repairs))
  <2>. HIDE DEF others
  <2>. QED
    BY <1>1, <1>2, AssembleKeeps
<1>. HIDE DEF others, inputs
<1>6. Failing(context'.items) = Failing(Assemble(context'.others, Get(repairs').given, repairs'))
  BY <1>3, <1>4, <1>5
<1>. QED
  BY <1>6 DEF FailureKnowledgeIsUndisturbed

(* Whatever was retrieved for the task, what is delivered for failures, and   *)
(* how much of each item, is what would be without it (ContextManager.collect, *)
(* KnowledgeContextSource.get).                                               *)
THEOREM FailuresComeFirst == KnowledgeSpec => []FailureKnowledgeIsUndisturbed
<1>1. KnowledgeInit => FailureKnowledgeIsUndisturbed
  BY DEF KnowledgeInit, FailureKnowledgeIsUndisturbed
<1>2. ASSUME KnowledgeIInv, FailureKnowledgeIsUndisturbed, [KnowledgeNext]_knowledgeVars
      PROVE  FailureKnowledgeIsUndisturbed'
  <2>1. ASSUME UNCHANGED <<phase, context, repairs>>
        PROVE  FailureKnowledgeIsUndisturbed'
    BY <1>2, <2>1 DEF FailureKnowledgeIsUndisturbed
  <2>2. ASSUME phase' # "built"
        PROVE  FailureKnowledgeIsUndisturbed'
    BY <2>2 DEF FailureKnowledgeIsUndisturbed
  <2>3. CASE \E p \in Places, e \in PackEnvs, v \in Versions : Materialize(p, e, v)
    <3>1. UNCHANGED <<phase, context, repairs>>
      BY <2>3 DEF Materialize, repair
    <3>. QED
      BY <2>1, <3>1
  <2>4. CASE \E p, q \in Places : Supersede(p, q)
    <3>1. UNCHANGED <<phase, context, repairs>>
      BY <2>4 DEF Supersede, repair
    <3>. QED
      BY <2>1, <3>1
  <2>5. CASE \E p \in Places, r \in Damaged, v \in Versions : Damage(p, r, v)
    <3>1. UNCHANGED <<phase, context, repairs>>
      BY <2>5 DEF Damage, repair
    <3>. QED
      BY <2>1, <3>1
  <2>6. CASE \E w \in Surroundings : Build(w)
    BY <1>2, <2>6, BuildUndisturbed
  <2>7. CASE \/ \E p \in Places, wanted \in published \cup {NoPack} : StartWithPack(p, wanted)
             \/ \E s \in Services : StartWithService(s)
             \/ \E e \in RunEnvs, needs \in PreCode, on \in BOOLEAN : Prepare(e, needs, on)
             \/ \E e \in RunEnvs, needs \in PreCode, on, offline \in BOOLEAN :
                   \E k \in 1 .. Len(needs) + 1 : Execute(e, needs, on, offline, k)
    <3>1. phase' # "built"
      BY <2>7 DEF StartWithPack, StartWithService, Prepare, Execute, StartRun
    <3>. QED
      BY <2>2, <3>1
  <2>8. CASE PersistTraces \/ PersistState \/ Send \/ (\E f \in Failures : Fail(f)) \/ End \/ Crash
    <3>1. phase' # "built"
      BY <2>8 DEF PersistTraces, PersistState, Send, Fail, End, Crash
    <3>. QED
      BY <2>2, <3>1
  <2>9. CASE UNCHANGED knowledgeVars
    <3>1. UNCHANGED <<phase, context, repairs>>
      BY <2>9 DEF knowledgeVars, repair
    <3>. QED
      BY <2>1, <3>1
  <2>. QED
    BY <1>2, <2>3, <2>4, <2>5, <2>6, <2>7, <2>8, <2>9 DEF KnowledgeNext
<1>. QED
  BY <1>1, <1>2, KnowledgeInvariantHolds, PTL DEF KnowledgeSpec
=============================================================================
