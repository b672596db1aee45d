----------------------------- MODULE Files_proof -----------------------------
(***************************************************************************)
(* Proofs about the components that keep files: ValueSaver, for any names  *)
(* and values and any number of saves and crashes, DayRollLogger, for any  *)
(* days, sizes and numbers of lines and failed writes, and UnixConfig, for *)
(* any keys, values, buckets and hashes and any lines that are loaded.     *)
(***************************************************************************)
EXTENDS ValueSaver, DayRollLogger, UnixConfig, SequenceLemmas

SaveSteps == {"idle", "create", "write", "replace", "remove", "copy", "unlink", "read"}

OnDisk == Contents \cup {Absent, Torn}

SaverType ==
    /\ table \in Tables /\ kept \in {Never, Soon, Absent}
    /\ step \in SaveSteps /\ given \in {Never, Soon}
    /\ file \in OnDisk /\ old \in OnDisk /\ tmp \in OnDisk
    /\ saved \in Contents \cup {Absent} /\ begun \in SUBSET Contents
    /\ passed \in BOOLEAN /\ unwritten \in BOOLEAN /\ halfCopied \in BOOLEAN
    /\ spoilt \in BOOLEAN /\ crashes \in Nat

\* What a file may hold.
Whole == begun \cup ({saved} \ {Absent})

\* Until it is spoilt, both files hold what was to be saved, and there is one of them; only
\* a copy may be incomplete, and then the old file is there.
Kept ==
    /\ ~spoilt =>
         /\ old # Absent => old \in Whole
         /\ file # Absent /\ ~halfCopied => file \in Whole
         /\ saved # Absent => file # Absent \/ old # Absent
    /\ halfCopied => old # Absent

\* What the steps under way have done so far.
SaveProgress ==
    /\ step \in {"create", "write", "replace", "remove"} => ~halfCopied /\ Saving \in begun
    /\ step \in {"create", "write"} => ~unwritten
    /\ step = "replace" /\ ~unwritten => tmp = Saving
    /\ step = "remove" /\ ~unwritten => file = Saving
    /\ step = "copy" => old # Absent
    /\ step = "unlink" => old # Absent /\ (~halfCopied => file = old)
    /\ step = "read" => old = Absent
    /\ step \in {"copy", "unlink", "read"} => table = EmptyTable

\* The inductive invariant.
SaverInv == SaverType /\ Kept /\ SaveProgress

LEMMA SavingIsContent ==
    ASSUME SaverType
    PROVE  Saving \in Contents /\ \A e \in {Never, Soon} : ToSave(e) \in Contents
BY DEF SaverType, Saving, ToSave, Contents

LEMMA ContentIsReal == \A c \in Contents : c # Absent /\ c # Torn
BY FileAssumption

LEMMA EmptyIsTable == EmptyTable \in Tables
BY DEF EmptyTable, Tables

LEMMA SaverInitEstablishes == SaverInit => SaverInv
  <1>. SUFFICES ASSUME SaverInit PROVE SaverInv
    OBVIOUS
  <1>1. SaverType
    BY EmptyIsTable DEF SaverInit, SaverType, OnDisk, SaveSteps
  <1>2. Kept /\ SaveProgress
    BY DEF SaverInit, Kept, SaveProgress
  <1>. QED
    BY <1>1, <1>2 DEF SaverInv

-----------------------------------------------------------------------------
LEMMA SetValueKeeps == ASSUME SaverInv, SetValue PROVE SaverInv'
  <1>1. SaverType /\ step = "idle"
    BY DEF SaverInv, SetValue
  <1>2. UNCHANGED <<kept, step, given, file, old, tmp, passed, saved, begun, unwritten,
                    halfCopied, spoilt, crashes>>
    BY DEF SetValue, diskVars, historyVars, countVars
  <1>3. table' \in Tables
    BY <1>1 DEF SetValue, SaverType, Tables
  <1>4. SaverType'
    BY <1>1, <1>2, <1>3 DEF SaverType
  <1>5. Kept' /\ SaveProgress'
    BY <1>1, <1>2 DEF SaverInv, Kept, Whole, SaveProgress
  <1>. QED
    BY <1>4, <1>5 DEF SaverInv

LEMMA ClearValuesKeeps == ASSUME SaverInv, ClearValues PROVE SaverInv'
  <1>1. SaverType /\ step = "idle" /\ table' \in Tables /\ kept' = Absent
    BY EmptyIsTable DEF SaverInv, ClearValues
  <1>2. UNCHANGED <<step, given, file, old, tmp, passed, saved, begun, unwritten,
                    halfCopied, spoilt, crashes>>
    BY DEF ClearValues, diskVars, historyVars, countVars
  <1>3. SaverType'
    BY <1>1, <1>2 DEF SaverType
  <1>4. Kept' /\ SaveProgress'
    BY <1>1, <1>2 DEF SaverInv, Kept, Whole, SaveProgress
  <1>. QED
    BY <1>3, <1>4 DEF SaverInv

LEMMA SaveKeeps == ASSUME SaverInv, NEW e \in {Never, Soon}, Save(e) PROVE SaverInv'
  <1>1. SaverType /\ Kept
    BY DEF SaverInv
  <1>2. /\ UNCHANGED <<table, kept, tmp, passed, saved, crashes>>
        /\ given' = e /\ step' = "create" /\ begun' = begun \cup {ToSave(e)}
        /\ unwritten' = FALSE /\ halfCopied' = FALSE /\ spoilt' = (spoilt \/ halfCopied)
    BY DEF Save, nvVars
  <1>3. \/ file = Absent /\ UNCHANGED <<file, old>>
        \/ file # Absent /\ old' = file /\ file' = Absent
    BY DEF Save
  <1>4. Saving' = ToSave(e) /\ ToSave(e) \in Contents
    BY <1>1, <1>2, SavingIsContent DEF Saving, ToSave
  <1>5. SaverType'
    BY <1>1, <1>2, <1>3, <1>4 DEF SaverType, SaveSteps, OnDisk
  <1>6. Whole \subseteq Whole'
    BY <1>2 DEF Whole
  <1>7. Kept'
    BY <1>1, <1>2, <1>3, <1>6 DEF Kept
  <1>8. SaveProgress'
    BY <1>2, <1>4 DEF SaveProgress
  <1>. QED
    BY <1>5, <1>7, <1>8 DEF SaverInv

LEMMA SaveCreateKeeps == ASSUME SaverInv, SaveCreate PROVE SaverInv'
  <1>1. /\ UNCHANGED <<table, kept, given, file, old, passed, saved, begun, halfCopied, spoilt,
                       crashes>>
        /\ \/ tmp' = Torn /\ step' = "write" /\ unwritten' = unwritten
           \/ tmp' = tmp /\ step' = "replace" /\ unwritten' = TRUE
        /\ step = "create"
    BY DEF SaveCreate, nvVars, countVars
  <1>2. Saving' = Saving
    BY <1>1 DEF Saving, ToSave
  <1>3. SaverType'
    <2>1. tmp' \in OnDisk /\ step' \in SaveSteps /\ unwritten' \in BOOLEAN
      BY <1>1 DEF SaverInv, SaverType, SaveSteps, OnDisk
    <2>. QED
      BY <1>1, <2>1 DEF SaverInv, SaverType, OnDisk
  <1>4. Kept'
    BY <1>1 DEF SaverInv, Kept, Whole
  <1>5. SaveProgress'
    BY <1>1, <1>2 DEF SaverInv, SaveProgress
  <1>. QED
    BY <1>3, <1>4, <1>5 DEF SaverInv

LEMMA SaveWriteKeeps == ASSUME SaverInv, SaveWrite PROVE SaverInv'
  <1>1. /\ UNCHANGED <<table, kept, given, file, old, passed, saved, begun, halfCopied, spoilt,
                       crashes>>
        /\ \/ tmp' = Saving /\ unwritten' = unwritten
           \/ tmp' = tmp /\ unwritten' = TRUE
        /\ step = "write" /\ step' = "replace"
    BY DEF SaveWrite, nvVars, countVars
  <1>2. Saving' = Saving /\ Saving \in Contents
    BY <1>1, SavingIsContent DEF Saving, ToSave, SaverInv
  <1>3. SaverType'
    BY <1>1, <1>2 DEF SaverInv, SaverType, SaveSteps, OnDisk
  <1>4. Kept'
    BY <1>1 DEF SaverInv, Kept, Whole
  <1>5. SaveProgress'
    BY <1>1, <1>2 DEF SaverInv, SaveProgress
  <1>. QED
    BY <1>3, <1>4, <1>5 DEF SaverInv

LEMMA SaveReplaceKeeps == ASSUME SaverInv, SaveReplace PROVE SaverInv'
  <1>1. /\ UNCHANGED <<table, kept, given, old, passed, saved, begun, unwritten, halfCopied,
                       crashes>>
        /\ \/ tmp = Absent /\ UNCHANGED <<file, tmp>>
           \/ tmp # Absent /\ file' = tmp /\ tmp' = Absent
        /\ spoilt' = (spoilt \/ unwritten)
        /\ step = "replace" /\ step' = "remove"
    BY DEF SaveReplace, nvVars, countVars
  <1>2. Saving' = Saving /\ Saving \in Contents /\ Saving # Absent
    BY <1>1, SavingIsContent, ContentIsReal DEF Saving, ToSave, SaverInv
  <1>3. Saving \in begun /\ ~halfCopied /\ (~unwritten => tmp = Saving)
    BY <1>1 DEF SaverInv, SaveProgress
  <1>4. SaverType'
    BY <1>1 DEF SaverInv, SaverType, SaveSteps, OnDisk
  <1>5. ~unwritten => file' = Saving
    BY <1>1, <1>2, <1>3
  <1>6. Kept'
    BY <1>1, <1>2, <1>3, <1>5 DEF SaverInv, Kept, Whole
  <1>7. SaveProgress'
    BY <1>1, <1>2, <1>3, <1>5 DEF SaveProgress
  <1>. QED
    BY <1>4, <1>6, <1>7 DEF SaverInv

LEMMA SaveRemoveKeeps == ASSUME SaverInv, SaveRemove PROVE SaverInv'
  <1>1. /\ UNCHANGED <<table, kept, given, file, tmp, passed, halfCopied, crashes>>
        /\ old' = Absent /\ saved' = Saving /\ begun' = {}
        /\ spoilt' = unwritten /\ unwritten' = FALSE
        /\ step = "remove" /\ step' = "idle"
    BY DEF SaveRemove, nvVars, countVars
  <1>2. Saving \in Contents /\ Saving # Absent
    BY SavingIsContent, ContentIsReal DEF SaverInv
  <1>3. ~halfCopied /\ (~unwritten => file = Saving)
    BY <1>1 DEF SaverInv, SaveProgress
  <1>4. SaverType'
    BY <1>1, <1>2 DEF SaverInv, SaverType, SaveSteps, OnDisk
  <1>5. Kept'
    BY <1>1, <1>2, <1>3 DEF Kept, Whole
  <1>6. SaveProgress'
    BY <1>1 DEF SaveProgress
  <1>. QED
    BY <1>4, <1>5, <1>6 DEF SaverInv

LEMMA LoadKeeps == ASSUME SaverInv, Load PROVE SaverInv'
  <1>1. /\ UNCHANGED <<given, file, old, passed, saved, begun, unwritten, halfCopied, spoilt,
                       crashes>>
        /\ table' = EmptyTable /\ kept' = Absent /\ tmp' = Absent
        /\ step' = IF old = Absent THEN "read" ELSE "copy"
    BY DEF Load, historyVars, countVars
  <1>2. SaverType'
    BY <1>1, EmptyIsTable DEF SaverInv, SaverType, SaveSteps, OnDisk
  <1>3. Kept'
    BY <1>1 DEF SaverInv, Kept, Whole
  <1>4. SaveProgress'
    BY <1>1 DEF SaveProgress, EmptyTable
  <1>. QED
    BY <1>2, <1>3, <1>4 DEF SaverInv

LEMMA LoadCopyKeeps == ASSUME SaverInv, LoadCopy PROVE SaverInv'
  <1>1. /\ UNCHANGED <<table, kept, given, old, tmp, passed, saved, begun, unwritten, spoilt,
                       crashes>>
        /\ file' \in {old, Torn, file} /\ halfCopied' = (file' # old)
        /\ step = "copy" /\ step' = "unlink"
    BY DEF LoadCopy, nvVars, countVars
  <1>2. old # Absent /\ table = EmptyTable /\ EmptyTable' = EmptyTable
    BY <1>1 DEF SaverInv, SaveProgress, EmptyTable
  <1>3. SaverType'
    BY <1>1 DEF SaverInv, SaverType, SaveSteps, OnDisk
  <1>4. Kept'
    BY <1>1, <1>2 DEF SaverInv, Kept, Whole
  <1>5. SaveProgress'
    BY <1>1, <1>2 DEF SaveProgress
  <1>. QED
    BY <1>3, <1>4, <1>5 DEF SaverInv

LEMMA LoadUnlinkKeeps == ASSUME SaverInv, LoadUnlink PROVE SaverInv'
  <1>1. /\ UNCHANGED <<table, kept, given, file, tmp, passed, saved, begun, unwritten, crashes>>
        /\ old' = Absent /\ halfCopied' = FALSE /\ spoilt' = (spoilt \/ halfCopied)
        /\ step = "unlink" /\ step' = "read"
    BY DEF LoadUnlink, nvVars, countVars
  <1>2. /\ old # Absent /\ (~halfCopied => file = old) /\ table = EmptyTable
        /\ EmptyTable' = EmptyTable
    BY <1>1 DEF SaverInv, SaveProgress, EmptyTable
  <1>3. SaverType'
    BY <1>1 DEF SaverInv, SaverType, SaveSteps, OnDisk
  <1>4. Kept'
    BY <1>1, <1>2 DEF SaverInv, Kept, Whole
  <1>5. SaveProgress'
    BY <1>1, <1>2 DEF SaveProgress
  <1>. QED
    BY <1>3, <1>4, <1>5 DEF SaverInv

LEMMA LoadReadKeeps == ASSUME SaverInv, LoadRead PROVE SaverInv'
  <1>1. SaverType /\ Kept
    BY DEF SaverInv
  <1>2. /\ UNCHANGED <<given, file, old, tmp, passed, saved, begun, unwritten, halfCopied,
                       spoilt, crashes>>
        /\ step' = "idle"
    BY DEF LoadRead, diskVars, historyVars, countVars
  <1>3. table' \in Tables /\ kept' \in {Never, Soon, Absent}
    <2>1. CASE file = Torn
      BY <2>1 DEF LoadRead
    <2>2. CASE file # Torn /\ (file = Absent \/ Expired(file))
      BY <1>1, <2>2 DEF LoadRead, nvVars, SaverType
    <2>3. CASE file # Torn /\ ~(file = Absent \/ Expired(file))
      <3>1. file \in Contents
        BY <1>1, <2>3 DEF SaverType, OnDisk
      <3>2. /\ file.table \in Tables /\ file.given \in {Never, Soon}
            /\ file.kept \in {Never, Soon, Absent}
        BY <3>1 DEF Contents
      <3>. QED
        BY <2>3, <3>2 DEF LoadRead
    <2>. QED
      BY <2>1, <2>2, <2>3
  <1>4. SaverType'
    BY <1>1, <1>2, <1>3 DEF SaverType, SaveSteps
  <1>5. Kept' /\ SaveProgress'
    BY <1>1, <1>2 DEF Kept, Whole, SaveProgress
  <1>. QED
    BY <1>4, <1>5 DEF SaverInv

LEMMA CrashKeeps == ASSUME SaverInv, Crash PROVE SaverInv'
  <1>1. SaverType /\ Kept
    BY DEF SaverInv
  <1>2. /\ UNCHANGED <<file, old, tmp, passed, saved, begun, halfCopied, spoilt>>
        /\ table' = EmptyTable /\ kept' = Absent /\ step' = "idle" /\ given' = Never
        /\ unwritten' = FALSE /\ crashes' = crashes + 1
    BY DEF Crash, diskVars
  <1>3. crashes' \in Nat
    BY <1>1, <1>2 DEF SaverType
  <1>4. SaverType'
    BY <1>1, <1>2, <1>3, EmptyIsTable DEF SaverType, SaveSteps
  <1>5. Kept' /\ SaveProgress'
    BY <1>1, <1>2 DEF Kept, Whole, SaveProgress
  <1>. QED
    BY <1>4, <1>5 DEF SaverInv

LEMMA SaverStays ==
    ASSUME SaverInv, passed' \in BOOLEAN,
           UNCHANGED <<table, kept, step, given, file, old, tmp, saved, begun, unwritten,
                       halfCopied, spoilt, crashes>>
    PROVE  SaverInv'
  <1>1. Saving' = Saving
    BY DEF Saving, ToSave
  <1>. QED
    BY <1>1 DEF SaverInv, SaverType, Kept, Whole, SaveProgress

LEMMA SaverStepKeeps == ASSUME SaverInv, [SaverNext]_saverVars PROVE SaverInv'
  <1>1. CASE SetValue \/ ClearValues \/ \E e \in {Never, Soon} : Save(e)
    BY <1>1, SetValueKeeps, ClearValuesKeeps, SaveKeeps
  <1>2. CASE SaveCreate \/ SaveWrite \/ SaveReplace \/ SaveRemove
    BY <1>2, SaveCreateKeeps, SaveWriteKeeps, SaveReplaceKeeps, SaveRemoveKeeps
  <1>3. CASE Load \/ LoadCopy \/ LoadUnlink \/ LoadRead
    BY <1>3, LoadKeeps, LoadCopyKeeps, LoadUnlinkKeeps, LoadReadKeeps
  <1>4. CASE Crash
    BY <1>4, CrashKeeps
  <1>5. CASE TimePasses
    BY <1>5, SaverStays DEF TimePasses, nvVars, diskVars, historyVars, countVars
  <1>6. CASE UNCHANGED saverVars
    BY <1>6, SaverStays
    DEF saverVars, nvVars, diskVars, historyVars, countVars, SaverInv, SaverType
  <1>. QED
    BY <1>1, <1>2, <1>3, <1>4, <1>5, <1>6 DEF SaverNext

LEMMA SaverInductive == SaverSpec => []SaverInv
  <1>. QED
    BY SaverInitEstablishes, SaverStepKeeps, PTL DEF SaverSpec

-----------------------------------------------------------------------------
\* For any tables and any number of crashes at any steps of save and load, the file that
\* load would believe is whole, unless a file could not be written or copied.
THEOREM OneCopyIsWhole == SaverSpec => []OneCopyWhole
  <1>1. SaverInv => OneCopyWhole
    BY DEF SaverInv, Kept, Whole, OneCopyWhole, Trusted
  <1>. QED
    BY <1>1, SaverInductive, PTL

\* What a load has found when it is about to return.
FoundRight ==
    \E c \in {saved} \cup begun : c = file /\ (ExpiresEarly(c) \/ table' = TableDue(c))

LEMMA ReadsSaved ==
    ASSUME SaverInv, LoadRead, saved # Absent, ~spoilt
    PROVE  FoundRight
  <1>1. SaverType /\ Kept /\ old = Absent /\ table = EmptyTable
    BY DEF SaverInv, LoadRead, SaveProgress
  <1>2. file \in {saved} \cup begun /\ file \in Contents
    BY <1>1 DEF Kept, Whole, SaverType
  <1>3. file # Torn /\ file # Absent
    BY <1>2, ContentIsReal
  <1>4. file.given \in {Never, Soon}
    BY <1>2 DEF Contents
  <1>5. SUFFICES ASSUME ~ExpiresEarly(file) PROVE table' = TableDue(file)
    BY <1>2 DEF FoundRight
  <1>6. Expired(file) <=> file.given = Soon /\ passed
    BY <1>4, <1>5 DEF Expired, ExpiresEarly, Never, Soon
  <1>7. CASE Expired(file)
    <2>1. table' = table
      BY <1>3, <1>7 DEF LoadRead, nvVars
    <2>. QED
      BY <1>1, <1>6, <1>7, <2>1 DEF TableDue
  <1>8. CASE ~Expired(file)
    <2>1. table' = file.table
      BY <1>3, <1>8 DEF LoadRead
    <2>. QED
      BY <1>6, <1>8, <2>1 DEF TableDue
  <1>. QED
    BY <1>7, <1>8

\* For any tables and any number of crashes at any steps of save and load, load returns what
\* was last saved, or what a save begun since would have saved, or nothing once that has
\* expired, with the three exceptions that the property names.
THEOREM LoadsTheSaved == SaverSpec => LoadsWhatWasSaved
  <1>. DEFINE A == step = "read" /\ step' = "idle" /\ crashes' = crashes
                   /\ saved # Absent /\ ~spoilt => FoundRight
  <1>1. ASSUME SaverInv, [SaverNext]_saverVars PROVE [A]_saverVars
    <2>1. SUFFICES ASSUME step = "read", step' = "idle", crashes' = crashes,
                          saved # Absent, ~spoilt, SaverNext
                   PROVE  LoadRead
      BY <1>1, ReadsSaved
    <2>2. ~Crash
      <3>1. crashes \in Nat
        BY <1>1 DEF SaverInv, SaverType
      <3>2. crashes + 1 # crashes
        BY <3>1
      <3>. QED
        BY <2>1, <3>2 DEF Crash
    <2>3. ~(SetValue \/ ClearValues \/ \E e \in {Never, Soon} : Save(e))
      BY <2>1 DEF SetValue, ClearValues, Save
    <2>4. ~(SaveCreate \/ SaveWrite \/ SaveReplace \/ SaveRemove)
      BY <2>1 DEF SaveCreate, SaveWrite, SaveReplace, SaveRemove
    <2>5. ~(Load \/ LoadCopy \/ LoadUnlink \/ TimePasses)
      BY <2>1 DEF Load, LoadCopy, LoadUnlink, TimePasses
    <2>. QED
      BY <2>1, <2>2, <2>3, <2>4, <2>5 DEF SaverNext
  <1>2. SaverSpec => [][A]_saverVars
    BY <1>1, SaverInductive, PTL DEF SaverSpec
  <1>. QED
    BY <1>2 DEF LoadsWhatWasSaved, FoundRight
-----------------------------------------------------------------------------
\* WithoutNul: what its recursion computes.
KeptBy(s, g) ==
    /\ DOMAIN g = 0 .. Len(s) /\ g[0] = << >>
    /\ \A n \in 1 .. Len(s) : g[n] = IF s[n] = Nul THEN g[n - 1] ELSE Append(g[n - 1], s[n])

LEMMA KeptExists ==
    ASSUME NEW S, NEW s \in Seq(S)
    PROVE  \E g \in [0 .. Len(s) -> Seq(S)] : KeptBy(s, g) /\ WithoutNul(s) = g[Len(s)]
  <1>. DEFINE N == Len(s)
              e == [p \in Seq(S) \X (1 .. N) |->
                      IF s[p[2]] = Nul THEN p[1] ELSE Append(p[1], s[p[2]])]
              Is(f) == f = [n \in 0 .. N |-> IF n = 0 THEN << >>
                                ELSE IF s[n] = Nul THEN f[n - 1] ELSE Append(f[n - 1], s[n])]
  <1>1. N \in Nat /\ \A n \in 1 .. N : s[n] \in S
    OBVIOUS
  <1>2. e \in Steps(Seq(S), N)
    <2>1. ASSUME NEW p \in Seq(S) \X (1 .. N)
          PROVE  (IF s[p[2]] = Nul THEN p[1] ELSE Append(p[1], s[p[2]])) \in Seq(S)
      <3>1. p[1] \in Seq(S) /\ s[p[2]] \in S
        OBVIOUS
      <3>. QED
        BY <3>1, AppendProperties
    <2>. QED
      BY <2>1 DEF Steps
  <1>3. << >> \in Seq(S)
    OBVIOUS
  <1>. HIDE DEF e, N
  <1>4. PICK g \in [0 .. N -> Seq(S)] : Iterates(g, << >>, e, N)
    BY <1>1, <1>2, <1>3, Iterated DEF Traces
  <1>5. ASSUME NEW n \in 1 .. N
        PROVE  g[n] = IF s[n] = Nul THEN g[n - 1] ELSE Append(g[n - 1], s[n])
    <2>1. n - 1 \in 0 .. N /\ g[n - 1] \in Seq(S)
      BY <1>1, <1>4
    <2>. QED
      BY <1>4, <2>1 DEF e, Iterates
  <1>6. Is(g)
    <2>1. \A n \in 0 .. N : n # 0 => n \in 1 .. N
      BY <1>1
    <2>2. \A n \in 0 .. N : g[n] = IF n = 0 THEN << >>
                                   ELSE IF s[n] = Nul THEN g[n - 1] ELSE Append(g[n - 1], s[n])
      BY <1>4, <1>5, <2>1 DEF Iterates
    <2>. QED
      BY <2>2
  <1>7. PICK f : Is(f) /\ WithoutNul(s) = f[N]
    BY <1>6, Zenon DEF WithoutNul, N
  <1>8. DOMAIN f = 0 .. N /\ KeptBy(s, f)
    <2>1. ASSUME NEW n \in 1 .. N
          PROVE  f[n] = IF s[n] = Nul THEN f[n - 1] ELSE Append(f[n - 1], s[n])
      <3>1. n \in 0 .. N /\ n # 0
        BY <1>1
      <3>. QED
        BY <1>7, <3>1
    <2>2. f[0] = << >> /\ DOMAIN f = 0 .. N
      BY <1>1, <1>7
    <2>. QED
      BY <2>1, <2>2 DEF KeptBy, N
  <1>9. f = g
    <2>. DEFINE T == {n \in 0 .. N : f[n] = g[n]}
    <2>1. 0 \in T
      BY <1>1, <1>4, <1>8 DEF KeptBy, Iterates, N
    <2>2. \A n \in 1 .. N : n - 1 \in T => n \in T
      BY <1>1, <1>5, <1>8 DEF KeptBy, N
    <2>3. \A n \in 0 .. N : n \in T
      <3>. HIDE DEF T
      <3>. QED
        BY <1>1, <2>1, <2>2, UpTheNumbers
    <2>. QED
      BY <1>7, <2>3
  <1>. QED
    BY <1>7, <1>8, <1>9 DEF N

LEMMA NulsDropped ==
    ASSUME NEW S, NEW s \in Seq(S), NEW u \in S
    PROVE  WithoutNul(Add(s, u)) = IF u = Nul THEN WithoutNul(s) ELSE Add(WithoutNul(s), u)
  <1>. DEFINE t == Append(s, u)   N == Len(s)
  <1>1. /\ t \in Seq(S) /\ Len(t) = N + 1 /\ N \in Nat /\ t[N + 1] = u
        /\ \A n \in 1 .. N : t[n] = s[n]
    BY AppendProperties
  <1>. HIDE DEF t
  <1>2. PICK f : KeptBy(s, f) /\ WithoutNul(s) = f[N]
    BY KeptExists
  <1>3. PICK g : KeptBy(t, g) /\ WithoutNul(t) = g[N + 1]
    BY <1>1, KeptExists
  <1>4. f[N] = g[N]
    <2>. DEFINE T == {n \in 0 .. N : f[n] = g[n]}
    <2>1. 0 \in T
      BY <1>1, <1>2, <1>3 DEF KeptBy
    <2>2. \A n \in 1 .. N : n - 1 \in T => n \in T
      BY <1>1, <1>2, <1>3 DEF KeptBy
    <2>3. \A n \in 0 .. N : n \in T
      <3>. HIDE DEF T
      <3>. QED
        BY <1>1, <2>1, <2>2, UpTheNumbers
    <2>. QED
      BY <1>1, <2>3
  <1>5. g[N + 1] = IF t[N + 1] = Nul THEN g[N] ELSE Append(g[N], t[N + 1])
    <2>1. N + 1 \in 1 .. Len(t) /\ (N + 1) - 1 = N
      BY <1>1
    <2>. QED
      BY <1>3, <2>1 DEF KeptBy
  <1>. QED
    BY <1>1, <1>2, <1>3, <1>4, <1>5 DEF t, Add

LEMMA NulsOfNone == ASSUME NEW S PROVE WithoutNul(<< >>) = << >>
  <1>1. << >> \in Seq(S) /\ Len(<< >>) = 0
    OBVIOUS
  <1>2. PICK g : KeptBy(<< >>, g) /\ WithoutNul(<< >>) = g[0]
    BY <1>1, KeptExists
  <1>. QED
    BY <1>2 DEF KeptBy

LEMMA NulsType == ASSUME NEW S, NEW s \in Seq(S) PROVE WithoutNul(s) \in Seq(S)
  <1>1. PICK g \in [0 .. Len(s) -> Seq(S)] : WithoutNul(s) = g[Len(s)]
    BY KeptExists
  <1>2. Len(s) \in 0 .. Len(s)
    OBVIOUS
  <1>. QED
    BY <1>1, <1>2

LEMMA NulsOfBoth ==
    ASSUME NEW S, NEW s \in Seq(S), NEW t \in Seq(S)
    PROVE  WithoutNul(Cat(s, t)) = Cat(WithoutNul(s), WithoutNul(t))
  <1>. DEFINE N == Len(t)
              T == {n \in 0 .. N : \A r \in Seq(S) : Len(r) = n =>
                      WithoutNul(Cat(s, r)) = Cat(WithoutNul(s), WithoutNul(r))}
  <1>1. 0 \in T
    <2>1. ASSUME NEW r \in Seq(S), Len(r) = 0
          PROVE  WithoutNul(Cat(s, r)) = Cat(WithoutNul(s), WithoutNul(r))
      <3>1. r = << >> /\ Cat(s, r) = s
        BY <2>1, EmptySeq, CatNone
      <3>2. WithoutNul(r) = << >> /\ WithoutNul(s) \in Seq(S)
        BY <3>1, NulsOfNone, NulsType
      <3>. QED
        BY <3>1, <3>2, CatNone
    <2>2. 0 \in 0 .. N
      OBVIOUS
    <2>. QED
      BY <2>1, <2>2
  <1>2. ASSUME NEW n \in 1 .. N, n - 1 \in T PROVE n \in T
    <2>1. ASSUME NEW r \in Seq(S), Len(r) = n
          PROVE  WithoutNul(Cat(s, r)) = Cat(WithoutNul(s), WithoutNul(r))
      <3>1. r # << >>
        BY <2>1
      <3>2. PICK q \in Seq(S), u \in S : r = Add(q, u)
        BY <3>1, LastAdded
      <3>3. Len(q) = n - 1
        BY <2>1, <3>2, AddType
      <3>4. WithoutNul(Cat(s, q)) = Cat(WithoutNul(s), WithoutNul(q))
        BY <1>2, <3>3
      <3>5. Cat(s, q) \in Seq(S) /\ Cat(s, r) = Add(Cat(s, q), u)
        <4>1. Cat(s, q) \in Seq(S)
          BY CatType
        <4>. QED
          BY <3>2, <4>1, AddBehind
      <3>6. WithoutNul(s) \in Seq(S) /\ WithoutNul(q) \in Seq(S)
        BY NulsType
      <3>7. WithoutNul(r) = IF u = Nul THEN WithoutNul(q) ELSE Add(WithoutNul(q), u)
        BY <3>2, NulsDropped
      <3>8. WithoutNul(Cat(s, r)) = IF u = Nul THEN Cat(WithoutNul(s), WithoutNul(q))
                                    ELSE Add(Cat(WithoutNul(s), WithoutNul(q)), u)
        BY <3>4, <3>5, NulsDropped
      <3>9. Add(Cat(WithoutNul(s), WithoutNul(q)), u) = Cat(WithoutNul(s), Add(WithoutNul(q), u))
        BY <3>2, <3>6, AddBehind
      <3>. QED
        BY <3>7, <3>8, <3>9
    <2>. QED
      BY <2>1
  <1>3. N \in Nat
    OBVIOUS
  <1>4. N \in T
    <2>. HIDE DEF T
    <2>1. \A n \in 0 .. N : n \in T
      BY <1>1, <1>2, <1>3, UpTheNumbers
    <2>. QED
      BY <1>3, <2>1
  <1>. QED
    BY <1>4

LEMMA NulsOfLine ==
    ASSUME NEW S, NEW s \in Seq(S), \A i \in 1 .. Len(s) : s[i] # Nul
    PROVE  WithoutNul(s) = s
  <1>1. PICK g \in [0 .. Len(s) -> Seq(S)] : KeptBy(s, g) /\ WithoutNul(s) = g[Len(s)]
    BY KeptExists
  <1>. DEFINE N == Len(s)   T == {n \in 0 .. N : g[n] = SubSeq(s, 1, n)}
  <1>2. N \in Nat /\ \A i \in 1 .. N : s[i] \in S
    OBVIOUS
  <1>3. 0 \in T
    <2>1. SubSeq(s, 1, 0) = << >>
      BY SubSeqEmpty
    <2>. QED
      BY <1>1, <1>2, <2>1 DEF KeptBy
  <1>4. ASSUME NEW n \in 1 .. N, n - 1 \in T PROVE n \in T
    <2>1. g[n] = Append(SubSeq(s, 1, n - 1), s[n])
      BY <1>1, <1>4 DEF KeptBy
    <2>2. SubSeq(s, 1, n) = SubSeq(s, 1, n - 1) \o <<s[n]>>
      <3>1. 1 \in 1 .. Len(s) /\ n \in 1 .. Len(s)
        BY <1>2
      <3>. QED
        BY <3>1, SubSeqRecursiveSecond
    <2>3. SubSeq(s, 1, n - 1) \in Seq(S)
      <3>1. g[n - 1] \in Seq(S)
        BY <1>1, <1>2
      <3>. QED
        BY <1>4, <3>1
    <2>4. Append(SubSeq(s, 1, n - 1), s[n]) = SubSeq(s, 1, n - 1) \o <<s[n]>>
      BY <1>2, <2>3, AppendIsConcat
    <2>5. n \in 0 .. N /\ (n \in 0 .. N => n \in T <=> g[n] = SubSeq(s, 1, n))
      OBVIOUS
    <2>. HIDE DEF T
    <2>. QED
      BY <2>1, <2>2, <2>4, <2>5, Zenon
  <1>5. N \in T
    <2>. HIDE DEF T
    <2>1. \A n \in 0 .. N : n \in T
      BY <1>2, <1>3, <1>4, UpTheNumbers
    <2>. QED
      BY <1>2, <2>1
  <1>6. SubSeq(s, 1, N) = s
    BY SubSeqFull
  <1>. QED
    BY <1>1, <1>5, <1>6

LEMMA NulInFront ==
    ASSUME NEW S, Nul \in S, NEW s \in Seq(S)
    PROVE  Cat(<<Nul>>, s) \in Seq(S) /\ WithoutNul(Cat(<<Nul>>, s)) = WithoutNul(s)
  <1>1. <<Nul>> \in Seq(S) /\ << >> \in Seq(S) /\ <<Nul>> = Add(<< >>, Nul)
    BY DEF Add
  <1>2. WithoutNul(<<Nul>>) = << >>
    BY <1>1, NulsDropped, NulsOfNone
  <1>3. WithoutNul(s) \in Seq(S)
    BY NulsType
  <1>. DEFINE nul == <<Nul>>
  <1>4. nul \in Seq(S) /\ WithoutNul(nul) = << >>
    BY <1>1, <1>2
  <1>. HIDE DEF nul
  <1>5. Cat(nul, s) \in Seq(S)
    BY <1>4, CatType
  <1>6. WithoutNul(Cat(nul, s)) = Cat(<< >>, WithoutNul(s))
    BY <1>4, NulsOfBoth
  <1>7. Cat(<< >>, WithoutNul(s)) = WithoutNul(s)
    BY <1>3, CatNone
  <1>. QED
    BY <1>5, <1>6, <1>7 DEF nul

\* Sequences that differ in Nul only stay so behind others, and in front of others.
LEMMA NulsMoved ==
    ASSUME NEW S, NEW a \in Seq(S), NEW b \in Seq(S), NEW c \in Seq(S), NEW d \in Seq(S),
           WithoutNul(Cat(b, c)) = WithoutNul(d)
    PROVE  WithoutNul(Cat(Cat(a, b), c)) = WithoutNul(Cat(a, d))
  <1>1. Cat(Cat(a, b), c) = Cat(a, Cat(b, c)) /\ Cat(b, c) \in Seq(S)
    BY CatAssociates, CatType
  <1>. QED
    BY <1>1, NulsOfBoth

LEMMA NulsBehind ==
    ASSUME NEW S, NEW a \in Seq(S), NEW b \in Seq(S), NEW c \in Seq(S)
    PROVE  WithoutNul(Cat(a, Cat(b, c))) = Cat(WithoutNul(Cat(a, b)), WithoutNul(c))
  <1>1. Cat(a, Cat(b, c)) = Cat(Cat(a, b), c) /\ Cat(a, b) \in Seq(S)
    BY CatAssociates, CatType
  <1>. QED
    BY <1>1, NulsOfBoth
-----------------------------------------------------------------------------
\* The logger.
Chars == Bytes \cup {Nul}

Dated(s, day, k) ==
    \A i \in 1 .. Len(s) : s[i] # Nul => s[i].day <= day /\ (k = 0 => s[i].day = day)

LogType ==
    /\ today \in Days /\ fileDay \in 0 .. today
    /\ blockSize \in Nat /\ lines \in Nat /\ logFaults \in Nat
    /\ block \in Seq(Chars) /\ logged \in Seq(Chars) /\ lost \in Seq(Chars)
    /\ logFiles \in [Days -> Seq(Chars)]

\* Nothing is in the file of a day to come, nor in one behind the file that is open.
Later ==
    \A d \in Days : (d > today \/ (fileDay # 0 /\ d > fileDay)) => logFiles[d] = << >>

\* What is in the files and in the block.
Held == WithoutNul(Cat(FlattenSeq(logFiles), block))

LogInv ==
    /\ LogType /\ Later
    /\ fileDay = 0 => block = << >>
    /\ fileDay # 0 => lost = << >> /\ Held = logged
    /\ Cat(Held, lost) = logged
    /\ lost # << >> => logFaults > 0
    /\ RoomForLine
    /\ \A d \in Days : Dated(logFiles[d], d, logFaults)
    /\ Dated(block, fileDay, logFaults)

LEMMA DatedNone == ASSUME NEW d, NEW k PROVE Dated(<< >>, d, k)
BY DEF Dated

LEMMA DatedBoth ==
    ASSUME NEW s \in Seq(Chars), NEW t \in Seq(Chars), NEW d, NEW k, Dated(s, d, k), Dated(t, d, k)
    PROVE  Dated(Cat(s, t), d, k)
  <1>1. /\ Len(s \o t) = Len(s) + Len(t) /\ Len(s) \in Nat /\ Len(t) \in Nat
        /\ \A i \in 1 .. Len(s) + Len(t) :
              (s \o t)[i] = IF i <= Len(s) THEN s[i] ELSE t[i - Len(s)]
    BY ConcatProperties
  <1>. DEFINE r == s \o t
  <1>2. \A i \in 1 .. Len(r) : \/ i \in 1 .. Len(s) /\ r[i] = s[i]
                               \/ i - Len(s) \in 1 .. Len(t) /\ r[i] = t[i - Len(s)]
    BY <1>1
  <1>. HIDE DEF r
  <1>3. Dated(r, d, k)
    BY <1>2 DEF Dated
  <1>. QED
    BY <1>3, Zenon DEF Cat, r

\* Bytes stay dated as faults are added, and on a later day once there was a fault.
LEMMA DatedOn ==
    ASSUME NEW s \in Seq(Chars), NEW d \in Nat, NEW e \in Nat, NEW k \in Nat, NEW l \in Nat,
           Dated(s, d, k), k <= l, d <= e, d = e \/ l # 0
    PROVE  Dated(s, e, l)
  <1>1. \A i \in 1 .. Len(s) : s[i] # Nul => s[i].day \in Nat
    <2>1. \A i \in 1 .. Len(s) : s[i] \in Chars
      OBVIOUS
    <2>. QED
      BY <2>1 DEF Chars, Bytes
  <1>. QED
    BY <1>1 DEF Dated

LEMMA DatedPart ==
    ASSUME NEW s, NEW t, NEW d, NEW k, Dated(s, d, k), PartOf(t, s)
    PROVE  Dated(t, d, k)
BY DEF Dated, PartOf

\* What a flush puts into the file and what it leaves in the block.
FlushOf(b, f) ==
    /\ f.out \in Seq(Chars) /\ f.rest \in Seq(Chars) /\ f.faults \in {0, 1}
    /\ WithoutNul(Cat(f.out, f.rest)) = WithoutNul(b)
    /\ \A d \in Nat, k \in Nat : Dated(b, d, k) => Dated(f.out, d, k) /\ Dated(f.rest, d, k)

LEMMA FlushIs ==
    ASSUME NEW b \in Seq(Chars), NEW f \in Flushes(b)
    PROVE  FlushOf(b, f) /\ (f.faults = 0 => f.rest = << >>)
  <1>0. Len(b) \in Nat /\ Nul \in Chars /\ << >> \in Seq(Chars)
    BY DEF Chars
  <1>1. ASSUME NEW n \in 0 .. Len(b),
               f = [out |-> SubSeq(b, 1, n), rest |-> SubSeq(b, n + 1, Len(b)),
                    faults |-> IF n = Len(b) THEN 0 ELSE 1]
        PROVE  FlushOf(b, f) /\ (f.faults = 0 => f.rest = << >>)
    <2>1. /\ f.out \in Seq(Chars) /\ f.rest \in Seq(Chars) /\ Cat(f.out, f.rest) = b
          /\ PartOf(f.out, b) /\ PartOf(f.rest, b)
      <3>. DEFINE x == SubSeq(b, 1, n)   y == SubSeq(b, n + 1, Len(b))
      <3>1. f.out = x /\ f.rest = y
        BY <1>1
      <3>2. /\ x \in Seq(Chars) /\ y \in Seq(Chars) /\ Cat(x, y) = b
            /\ PartOf(x, b) /\ PartOf(y, b)
        BY CutInTwo, Zenon
      <3>. HIDE DEF x, y
      <3>. QED
        BY <3>1, <3>2
    <2>2. f.faults \in {0, 1} /\ (f.faults = 0 => n = Len(b))
      BY <1>1
    <2>3. n = Len(b) => f.rest = << >>
      <3>1. n = Len(b) => SubSeq(b, n + 1, Len(b)) = << >>
        BY <1>0, SubSeqEmpty
      <3>. QED
        BY <1>1, <3>1
    <2>4. ASSUME NEW d \in Nat, NEW k \in Nat, Dated(b, d, k)
          PROVE  Dated(f.out, d, k) /\ Dated(f.rest, d, k)
      BY <2>1, <2>4, DatedPart
    <2>. QED
      BY <2>1, <2>2, <2>3, <2>4 DEF FlushOf
  <1>2. ASSUME f = [out |-> << >>, rest |-> <<Nul>> \o b, faults |-> 1]
        PROVE  FlushOf(b, f) /\ (f.faults = 0 => f.rest = << >>)
    <2>1. f.out = << >> /\ f.faults = 1
      BY <1>2
    <2>2. f.rest = Cat(<<Nul>>, b)
      <3>1. f.rest = <<Nul>> \o b
        BY <1>2
      <3>. QED
        BY <3>1, Zenon DEF Cat
    <2>3. f.rest \in Seq(Chars) /\ WithoutNul(f.rest) = WithoutNul(b)
      BY <1>0, <2>2, NulInFront
    <2>4. Cat(f.out, f.rest) = f.rest
      BY <2>1, <2>3, CatNone
    <2>5. ASSUME NEW d \in Nat, NEW k \in Nat, Dated(b, d, k)
          PROVE  Dated(f.out, d, k) /\ Dated(f.rest, d, k)
      <3>. DEFINE nul == <<Nul>>
      <3>1. nul \in Seq(Chars) /\ Dated(nul, d, k)
        BY <1>0 DEF Dated
      <3>. HIDE DEF nul
      <3>2. Dated(Cat(nul, b), d, k)
        BY <2>5, <3>1, DatedBoth
      <3>. QED
        BY <2>1, <2>2, <3>2, DatedNone DEF nul
    <2>. QED
      BY <1>0, <2>1, <2>3, <2>4, <2>5 DEF FlushOf
  <1>3. \/ \E n \in 0 .. Len(b) : f = [out |-> SubSeq(b, 1, n), rest |-> SubSeq(b, n + 1, Len(b)),
                                       faults |-> IF n = Len(b) THEN 0 ELSE 1]
        \/ f = [out |-> << >>, rest |-> <<Nul>> \o b, faults |-> 1]
    <2>1. \A n \in (IF b = << >> THEN {0} ELSE 1 .. Len(b)) : n \in 0 .. Len(b)
      BY <1>0
    <2>. QED
      BY <2>1, Zenon DEF Flushes
  <1>. QED
    BY <1>1, <1>2, <1>3

LEMMA AfterLineIs ==
    ASSUME NEW b \in Seq(Chars), NEW f \in AfterLine(b)
    PROVE  /\ FlushOf(b, f)
           /\ f.faults = 0 => f.rest = << >> \/ (f.rest = b /\ ~(blockSize - Len(b) < MaxLine))
  <1>1. CASE blockSize - Len(b) < MaxLine
    BY <1>1, FlushIs DEF AfterLine
  <1>2. CASE ~(blockSize - Len(b) < MaxLine)
    <2>1. f.out = << >> /\ f.rest = b /\ f.faults = 0
      BY <1>2 DEF AfterLine
    <2>2. << >> \in Seq(Chars) /\ Cat(<< >>, b) = b
      BY CatNone
    <2>3. FlushOf(b, f)
      BY <2>1, <2>2, DatedNone DEF FlushOf
    <2>. QED
      BY <1>2, <2>1, <2>3
  <1>. QED
    BY <1>1, <1>2

\* What is written to the file of a day.
OnlyBehind(files, day, out, after) ==
    /\ after \in [Days -> Seq(Chars)] /\ after[day] = Cat(files[day], out)
    /\ \A d \in Days : d # day => after[d] = files[d]
    /\ FlattenSeq(after) = Cat(FlattenSeq(files), out)

LEMMA AppendedTo ==
    ASSUME NEW files \in [Days -> Seq(Chars)], NEW day \in Days, NEW out \in Seq(Chars),
           \A d \in Days : d > day => files[d] = << >>
    PROVE  OnlyBehind(files, day, out, Appended(files, day, out))
  <1>1. Appended(files, day, out) = [files EXCEPT ![day] = Cat(@, out)]
    BY Zenon DEF Appended, Cat
  <1>2. files[day] \in Seq(Chars)
    OBVIOUS
  <1>3. Cat(files[day], out) \in Seq(Chars)
    BY <1>2, CatType
  <1>. DEFINE after == Appended(files, day, out)
  <1>4. after = [files EXCEPT ![day] = Cat(@, out)]
    BY <1>1
  <1>. HIDE DEF after
  <1>5. /\ after \in [Days -> Seq(Chars)] /\ after[day] = Cat(files[day], out)
        /\ \A d \in Days : d # day => after[d] = files[d]
    BY <1>3, <1>4
  <1>6. PutBehind(files, day, out, after, LastDay)
    BY <1>5 DEF Days, PutBehind
  <1>7. FlattenSeq(after) = Cat(FlattenSeq(files), out)
    <2>1. LastDay \in Nat \ {0}
      BY LoggerAssumption
    <2>2. files \in Parts(LastDay, Chars)
      BY DEF Days, Parts
    <2>3. after \in Parts(LastDay, Chars)
      BY <1>5 DEF Days, Parts
    <2>4. day \in 1 .. LastDay
      BY DEF Days
    <2>. QED
      BY <1>6, <2>1, <2>2, <2>3, <2>4, FlattenBehind
  <1>. QED
    BY <1>5, <1>7 DEF after, OnlyBehind

\* The files and the block before a line is put into it, k faults later.
ReadyOf(p) ==
    /\ p.files \in [Days -> Seq(Chars)] /\ p.rest \in Seq(Chars) /\ p.faults \in Nat
    /\ WithoutNul(Cat(FlattenSeq(p.files), p.rest)) = logged
    /\ \A d \in Days : d > today => p.files[d] = << >>
    /\ \A d \in Days : Dated(p.files[d], d, logFaults + p.faults)
    /\ Dated(p.rest, today, logFaults + p.faults)

LEMMA PreparedIs ==
    ASSUME LogInv, fileDay # 0, NEW p \in Prepared
    PROVE  ReadyOf(p)
  <1>1. CASE fileDay = today
    <2>1. p.files = logFiles /\ p.rest = block /\ p.faults = 0
      BY <1>1 DEF Prepared
    <2>2. logFaults + p.faults = logFaults /\ p.faults \in Nat
      BY <2>1 DEF LogInv, LogType
    <2>3. /\ logFiles \in [Days -> Seq(Chars)] /\ block \in Seq(Chars)
          /\ WithoutNul(Cat(FlattenSeq(logFiles), block)) = logged
          /\ \A d \in Days : Dated(logFiles[d], d, logFaults)
          /\ Dated(block, today, logFaults)
      BY <1>1 DEF LogInv, LogType, Held
    <2>4. \A d \in Days : d > today => logFiles[d] = << >>
      BY DEF LogInv, Later
    <2>. QED
      BY <2>1, <2>2, <2>3, <2>4, Zenon DEF ReadyOf
  <1>2. CASE fileDay # today
    <2>1. PICK f \in Flushes(block) :
             p = [files |-> Appended(logFiles, fileDay, f.out),
                  rest |-> f.rest, faults |-> f.faults]
      BY <1>2 DEF Prepared
    <2>2. p.files = Appended(logFiles, fileDay, f.out) /\ p.rest = f.rest /\ p.faults = f.faults
      BY <2>1
    <2>3. block \in Seq(Chars) /\ logFiles \in [Days -> Seq(Chars)] /\ logFaults \in Nat
      BY DEF LogInv, LogType
    <2>4. fileDay \in Days /\ fileDay \in Nat /\ today \in Nat /\ fileDay < today
      BY <1>2, LoggerAssumption DEF LogInv, LogType, Days
    <2>5. FlushOf(block, f) /\ (f.faults = 0 => f.rest = << >>)
      BY <2>1, <2>3, FlushIs
    <2>6. f.out \in Seq(Chars) /\ f.rest \in Seq(Chars) /\ f.faults \in {0, 1}
      BY <2>5 DEF FlushOf
    <2>7. \A d \in Days : d > fileDay => logFiles[d] = << >>
      BY DEF LogInv, Later
    <2>8. /\ p.files \in [Days -> Seq(Chars)]
          /\ p.files[fileDay] = Cat(logFiles[fileDay], f.out)
          /\ \A d \in Days : d # fileDay => p.files[d] = logFiles[d]
          /\ FlattenSeq(p.files) = Cat(FlattenSeq(logFiles), f.out)
      <3>1. OnlyBehind(logFiles, fileDay, f.out, p.files)
        <4>1. logFiles \in [Days -> Seq(Chars)] /\ fileDay \in Days /\ f.out \in Seq(Chars)
          BY <2>3, <2>4, <2>6
        <4>2. \A d \in Days : d > fileDay => logFiles[d] = << >>
          BY <2>7
        <4>3. OnlyBehind(logFiles, fileDay, f.out, Appended(logFiles, fileDay, f.out))
          BY <4>1, <4>2, AppendedTo
        <4>. QED
          BY <2>2, <4>3
      <3>. QED
        BY <3>1 DEF OnlyBehind
    <2>9. FlattenSeq(logFiles) \in Seq(Chars)
      BY <2>3, LoggerAssumption, FlattenType DEF Days
    <2>10. WithoutNul(Cat(FlattenSeq(p.files), p.rest)) = logged
      <3>1. WithoutNul(Cat(f.out, f.rest)) = WithoutNul(block)
        BY <2>5 DEF FlushOf
      <3>2. WithoutNul(Cat(Cat(FlattenSeq(logFiles), f.out), f.rest))
              = WithoutNul(Cat(FlattenSeq(logFiles), block))
        BY <2>3, <2>6, <2>9, <3>1, NulsMoved
      <3>. QED
        BY <2>2, <2>8, <3>2 DEF LogInv, Held
    <2>11. \A d \in Days : d > today => p.files[d] = << >>
      <3>1. \A d \in Days : d > today => d # fileDay /\ d > fileDay
        BY <2>4 DEF Days
      <3>. QED
        BY <2>7, <2>8, <3>1
    <2>12. Dated(f.out, fileDay, logFaults) /\ Dated(f.rest, fileDay, logFaults)
      BY <2>3, <2>4, <2>5 DEF FlushOf, LogInv
    <2>13. ASSUME NEW d \in Days PROVE Dated(p.files[d], d, logFaults + p.faults)
      <3>1. /\ d \in Nat /\ logFaults + p.faults \in Nat /\ logFaults <= logFaults + p.faults
            /\ p.files[d] \in Seq(Chars) /\ logFiles[d] \in Seq(Chars)
        <4>1. p.faults \in {0, 1}
          BY <2>2, <2>6
        <4>2. p.files[d] \in Seq(Chars) /\ logFiles[d] \in Seq(Chars)
          BY <2>3, <2>8
        <4>. QED
          BY <2>3, <4>1, <4>2 DEF Days
      <3>2. Dated(logFiles[d], d, logFaults)
        BY DEF LogInv
      <3>3. Dated(p.files[d], d, logFaults)
        <4>1. CASE d = fileDay
          BY <2>6, <2>8, <2>12, <3>1, <3>2, <4>1, DatedBoth
        <4>2. CASE d # fileDay
          BY <2>8, <3>2, <4>2
        <4>. QED
          BY <4>1, <4>2
      <3>. QED
        BY <2>3, <3>1, <3>3, DatedOn
    <2>14. Dated(p.rest, today, logFaults + p.faults)
      <3>1. CASE f.faults = 0
        BY <2>2, <2>5, <3>1, DatedNone
      <3>2. CASE f.faults = 1
        <4>1. /\ logFaults + 1 \in Nat /\ logFaults <= logFaults + 1 /\ logFaults + 1 # 0
              /\ fileDay <= today
          BY <2>3, <2>4
        <4>2. Dated(f.rest, today, logFaults + 1)
          BY <2>3, <2>4, <2>6, <2>12, <4>1, DatedOn
        <4>. QED
          BY <2>2, <3>2, <4>2
      <3>. QED
        BY <2>6, <3>1, <3>2
    <2>15. p.faults \in Nat /\ p.rest \in Seq(Chars)
      BY <2>2, <2>6
    <2>. QED
      BY <2>8, <2>10, <2>11, <2>13, <2>14, <2>15 DEF ReadyOf
  <1>. QED
    BY <1>1, <1>2

\* A line has no Nul and is stamped today.
LEMMA LineIs ==
    ASSUME LogInv, NEW size \in Nat
    PROVE  /\ Line(size) \in Seq(Chars) /\ WithoutNul(Line(size)) = Line(size)
           /\ \A k \in Nat : Dated(Line(size), today, k)
  <1>. DEFINE line == Line(size)
  <1>1. lines + 1 \in Nat /\ today \in Nat
    BY DEF LogInv, LogType, Days
  <1>2. /\ line \in [1 .. size -> Bytes] /\ Len(line) = size
        /\ \A i \in 1 .. size : line[i].day = today
    BY <1>1 DEF Line, Bytes
  <1>3. \A i \in 1 .. size : line[i] # Nul
    BY <1>2, LoggerAssumption
  <1>. HIDE DEF line
  <1>4. line \in Seq(Chars)
    BY <1>2 DEF Chars
  <1>5. WithoutNul(line) = line
    BY <1>2, <1>3, <1>4, NulsOfLine
  <1>6. \A k \in Nat : Dated(line, today, k)
    BY <1>1, <1>2 DEF Dated
  <1>. QED
    BY <1>4, <1>5, <1>6 DEF line

LEMMA LogInitEstablishes == LogInit => LogInv
  <1>. SUFFICES ASSUME LogInit PROVE LogInv
    OBVIOUS
  <1>1. LogType
    BY LoggerAssumption DEF LogInit, LogType, Days
  <1>2. Later
    BY DEF LogInit, Later
  <1>3. FlattenSeq(logFiles) = << >>
    <2>1. LastDay \in Nat \ {0} /\ logFiles \in [1 .. LastDay -> Seq(Chars)]
      BY <1>1, LoggerAssumption DEF LogType, Days
    <2>2. \A n \in 1 .. LastDay : logFiles[n] = << >>
      BY DEF LogInit, Days
    <2>. QED
      BY <2>1, <2>2, FlattenNone
  <1>4. Held = << >> /\ Cat(Held, lost) = logged
    <2>0. << >> \in Seq(Chars)
      OBVIOUS
    <2>1. Cat(<< >>, << >>) = << >>
      BY <2>0, CatNone, Zenon
    <2>2. WithoutNul(<< >>) = << >>
      BY NulsOfNone
    <2>. QED
      BY <1>3, <2>1, <2>2 DEF LogInit, Held
  <1>5. \A d \in Days : logFiles[d] = << >>
    BY DEF LogInit
  <1>6. block = << >> /\ fileDay = 0 /\ lost = << >> /\ RoomForLine
    BY DEF LogInit, RoomForLine
  <1>. QED
    BY <1>1, <1>2, <1>4, <1>5, <1>6, DatedNone DEF LogInv

LEMMA LogStays == LogInv /\ UNCHANGED logVars => LogInv'
BY DEF LogInv, LogType, Later, Held, RoomForLine, logVars

LEMMA MidnightKeeps == LogInv /\ Midnight => LogInv'
  <1>. SUFFICES ASSUME LogInv, Midnight PROVE LogInv'
    OBVIOUS
  <1>1. /\ today \in 1 .. LastDay /\ today < LastDay /\ today' = today + 1 /\ LastDay \in Nat
        /\ fileDay \in 0 .. today
    BY LoggerAssumption DEF LogInv, LogType, Midnight, Days
  <1>2. today' \in 1 .. LastDay /\ fileDay \in 0 .. today'
    BY <1>1
  <1>3. LogType'
    BY <1>2 DEF LogInv, LogType, Midnight, Days
  <1>4. Later'
    BY <1>1 DEF LogInv, Later, Midnight, Days
  <1>. QED
    BY <1>3, <1>4 DEF LogInv, Held, RoomForLine, Midnight

LEMMA OpenFailsKeeps == LogInv /\ OpenFails => LogInv'
  <1>. SUFFICES ASSUME LogInv, OpenFails PROVE LogInv'
    OBVIOUS
  <1>1. LogType'
    BY DEF LogInv, LogType, OpenFails
  <1>2. logFaults \in Nat /\ logFaults' \in Nat /\ logFaults <= logFaults' /\ fileDay \in Nat
    BY DEF LogInv, LogType, OpenFails, Days
  <1>3. ASSUME NEW d \in Days PROVE Dated(logFiles[d], d, logFaults')
    <2>1. logFiles[d] \in Seq(Chars) /\ d \in Nat /\ Dated(logFiles[d], d, logFaults)
      BY DEF LogInv, LogType, Days
    <2>. QED
      BY <1>2, <2>1, DatedOn
  <1>4. Dated(block, fileDay, logFaults')
    <2>1. block \in Seq(Chars) /\ Dated(block, fileDay, logFaults)
      BY DEF LogInv, LogType
    <2>. QED
      BY <1>2, <2>1, DatedOn
  <1>5. logFaults' > 0 /\ RoomForLine'
    BY DEF LogInv, LogType, OpenFails, RoomForLine
  <1>. QED
    BY <1>1, <1>2, <1>3, <1>4, <1>5 DEF LogInv, Later, Held, OpenFails

\* The bytes of the files.
LEMMA FilesAre == ASSUME LogType PROVE FlattenSeq(logFiles) \in Seq(Chars)
  <1>1. LastDay \in Nat \ {0} /\ logFiles \in [1 .. LastDay -> Seq(Chars)]
    BY LoggerAssumption DEF LogType, Days
  <1>. QED
    BY <1>1, FlattenType

LEMMA OpenLogKeeps == LogInv /\ OpenLog => LogInv'
  <1>. SUFFICES ASSUME LogInv, OpenLog PROVE LogInv'
    OBVIOUS
  <1>1. block = << >> /\ block' = << >> /\ lost' = << >> /\ logFiles' = logFiles
    BY DEF LogInv, OpenLog
  <1>2. FlattenSeq(logFiles) \in Seq(Chars)
    BY FilesAre DEF LogInv
  <1>3. logged' = WithoutNul(FlattenSeq(logFiles)) /\ logged' \in Seq(Chars)
    BY <1>2, NulsType DEF OpenLog, Written
  <1>4. Held' = logged'
    BY <1>1, <1>2, <1>3, CatNone DEF Held
  <1>5. Cat(Held, lost)' = logged'
    BY <1>1, <1>3, <1>4, CatNone
  <1>6. LogType'
    BY <1>1, <1>3, LoggerAssumption DEF LogInv, LogType, OpenLog, Days
  <1>7. Later'
    BY DEF LogInv, LogType, Later, OpenLog
  <1>8. Dated(block, fileDay, logFaults)'
    BY <1>1, DatedNone
  <1>9. RoomForLine'
    BY <1>1 DEF RoomForLine
  <1>10. \A d \in Days : Dated(logFiles[d], d, logFaults)'
    BY DEF LogInv, OpenLog
  <1>. QED
    BY <1>1, <1>4, <1>5, <1>6, <1>7, <1>8, <1>9, <1>10 DEF LogInv

LEMMA CloseLogKeeps == LogInv /\ CloseLog => LogInv'
  <1>. SUFFICES ASSUME LogInv, CloseLog PROVE LogInv'
    OBVIOUS
  <1>1. PICK f \in Flushes(block) :
           /\ logFiles' = Appended(logFiles, fileDay, f.out)
           /\ lost' = WithoutNul(f.rest)
           /\ logFaults' = logFaults + f.faults
    BY DEF CloseLog
  <1>2. /\ block \in Seq(Chars) /\ logFiles \in [Days -> Seq(Chars)] /\ logFaults \in Nat
        /\ logged \in Seq(Chars)
    BY DEF LogInv, LogType
  <1>3. fileDay # 0 /\ fileDay \in Days /\ fileDay \in Nat /\ fileDay <= today /\ today \in Days
    <2>1. today \in 1 .. LastDay /\ fileDay \in 0 .. today /\ fileDay # 0 /\ LastDay \in Nat
      BY LoggerAssumption DEF LogInv, LogType, CloseLog, Days
    <2>. QED
      BY <2>1 DEF Days
  <1>4. FlushOf(block, f)
    BY <1>1, <1>2, FlushIs
  <1>5. f.out \in Seq(Chars) /\ f.rest \in Seq(Chars) /\ f.faults \in {0, 1}
    BY <1>4 DEF FlushOf
  <1>. DEFINE before == FlattenSeq(logFiles)
  <1>6. \A d \in Days : d > fileDay => logFiles[d] = << >>
    BY <1>3 DEF LogInv, Later
  <1>7. /\ logFiles' \in [Days -> Seq(Chars)] /\ logFiles'[fileDay] = Cat(logFiles[fileDay], f.out)
        /\ \A d \in Days : d # fileDay => logFiles'[d] = logFiles[d]
        /\ FlattenSeq(logFiles') = Cat(before, f.out)
    <2>1. OnlyBehind(logFiles, fileDay, f.out, logFiles')
      <3>1. logFiles \in [Days -> Seq(Chars)] /\ fileDay \in Days /\ f.out \in Seq(Chars)
        BY <1>2, <1>3, <1>5
      <3>2. \A d \in Days : d > fileDay => logFiles[d] = << >>
        BY <1>6
      <3>3. OnlyBehind(logFiles, fileDay, f.out, Appended(logFiles, fileDay, f.out))
        BY <3>1, <3>2, AppendedTo
      <3>. QED
        BY <1>1, <3>3
    <2>. QED
      BY <2>1 DEF OnlyBehind
  <1>8. before \in Seq(Chars)
    <2>1. LastDay \in Nat \ {0} /\ logFiles \in [1 .. LastDay -> Seq(Chars)]
      BY <1>2, LoggerAssumption DEF Days
    <2>. QED
      BY <2>1, FlattenType
  <1>. HIDE DEF before
  <1>9. Cat(before, f.out) \in Seq(Chars) /\ Cat(Cat(before, f.out), << >>) = Cat(before, f.out)
    <2>1. Cat(before, f.out) \in Seq(Chars)
      BY <1>5, <1>8, CatType
    <2>. QED
      BY <2>1, CatNone
  <1>10. logged = Cat(WithoutNul(Cat(before, f.out)), WithoutNul(f.rest))
    <2>1. WithoutNul(Cat(f.out, f.rest)) = WithoutNul(block)
      BY <1>4 DEF FlushOf
    <2>2. WithoutNul(Cat(Cat(before, f.out), f.rest)) = WithoutNul(Cat(before, block))
      BY <1>2, <1>5, <1>8, <2>1, NulsMoved
    <2>3. WithoutNul(Cat(Cat(before, f.out), f.rest))
            = Cat(WithoutNul(Cat(before, f.out)), WithoutNul(f.rest))
      BY <1>5, <1>9, NulsOfBoth
    <2>. QED
      BY <1>3, <2>2, <2>3 DEF LogInv, Held, before
  <1>11. lost' \in Seq(Chars) /\ logged' = logged /\ (lost' # << >> => f.faults # 0)
    <2>1. f.faults = 0 => f.rest = << >>
      BY <1>1, <1>2, FlushIs
    <2>. QED
      BY <1>1, <1>5, <2>1, NulsType, NulsOfNone DEF CloseLog
  <1>12. /\ block' = << >> /\ fileDay' = 0 /\ today' = today /\ UNCHANGED <<blockSize, lines>>
    BY DEF CloseLog
  <1>13a. Cat(Held', lost') = logged'
    BY <1>1, <1>7, <1>9, <1>10, <1>11, <1>12 DEF Held
  <1>13. logFaults' \in Nat /\ logFaults <= logFaults'
    BY <1>1, <1>2, <1>5
  <1>14. LogType'
    <2>1. logged' \in Seq(Chars) /\ lost' \in Seq(Chars)
      BY <1>2, <1>11
    <2>2. block' \in Seq(Chars)
      BY <1>12
    <2>. QED
      BY <1>3, <1>7, <1>12, <1>13, <2>1, <2>2 DEF LogInv, LogType, Days
  <1>15. ASSUME NEW d \in Days, d > today PROVE logFiles'[d] = << >>
    <2>1. d # fileDay /\ d > fileDay
      BY <1>3, <1>15 DEF Days
    <2>. QED
      BY <1>6, <1>7, <2>1
  <1>16. ASSUME NEW d \in Days PROVE Dated(logFiles'[d], d, logFaults')
    <2>1. logFiles[d] \in Seq(Chars) /\ logFiles'[d] \in Seq(Chars) /\ d \in Nat
      BY <1>2, <1>7 DEF Days
    <2>2. Dated(logFiles[d], d, logFaults)
      BY DEF LogInv
    <2>3. Dated(f.out, fileDay, logFaults)
      BY <1>2, <1>3, <1>4 DEF FlushOf, LogInv
    <2>4. Dated(logFiles'[d], d, logFaults)
      <3>1. CASE d = fileDay
        BY <1>5, <1>7, <2>1, <2>2, <2>3, <3>1, DatedBoth
      <3>2. CASE d # fileDay
        BY <1>7, <2>2, <3>2
      <3>. QED
        BY <3>1, <3>2
    <2>. QED
      BY <1>2, <1>13, <2>1, <2>4, DatedOn
  <1>17. Dated(block', fileDay', logFaults')
    BY <1>12, DatedNone
  <1>18. lost' # << >> => logFaults' > 0
    BY <1>1, <1>2, <1>5, <1>11
  <1>. QED
    BY <1>12, <1>13a, <1>14, <1>15, <1>16, <1>17, <1>18 DEF LogInv, Later, RoomForLine

LEMMA WriteLineKeeps == ASSUME LogInv, NEW size \in LineSizes, WriteLine(size) PROVE LogInv'
  <1>. DEFINE line == Line(size)
  <1>0. PICK p \in Prepared : \E text \in size .. MaxLine, f \in AfterLine(p.rest \o line) :
           /\ logFaults' = logFaults + p.faults + f.faults
           /\ logFiles' = Appended(p.files, today, f.out)
           /\ block' = f.rest
    BY Zenon DEF WriteLine
  <1>1. PICK f \in AfterLine(p.rest \o line) :
           /\ logFaults' = logFaults + p.faults + f.faults
           /\ logFiles' = Appended(p.files, today, f.out)
           /\ block' = f.rest
    BY <1>0, Zenon
  <1>2. /\ fileDay # 0 /\ fileDay' = today /\ lines' = lines + 1 /\ logged' = logged \o line
        /\ UNCHANGED <<today, blockSize, lost>>
    BY DEF WriteLine
  <1>3. ReadyOf(p)
    BY <1>0, <1>2, PreparedIs
  <1>4. /\ line \in Seq(Chars) /\ WithoutNul(line) = line
        /\ \A k \in Nat : Dated(line, today, k)
    <2>1. size \in Nat
      BY LoggerAssumption
    <2>. QED
      BY <2>1, LineIs
  <1>5. /\ logFaults \in Nat /\ logged \in Seq(Chars) /\ lines \in Nat /\ blockSize \in Nat
        /\ today \in Days /\ today \in Nat /\ today # 0
    BY DEF LogInv, LogType, Days
  <1>6. /\ p.files \in [Days -> Seq(Chars)] /\ p.rest \in Seq(Chars) /\ p.faults \in Nat
        /\ \A d \in Days : d > today => p.files[d] = << >>
    BY <1>3 DEF ReadyOf
  <1>. DEFINE b == Cat(p.rest, line)   before == FlattenSeq(p.files)   k == logFaults + p.faults
  <1>7. b \in Seq(Chars) /\ f \in AfterLine(b) /\ logged' = Cat(logged, line)
    <2>. HIDE DEF line
    <2>1. p.rest \o line = Cat(p.rest, line) /\ logged \o line = Cat(logged, line)
      BY Zenon DEF Cat
    <2>2. Cat(p.rest, line) \in Seq(Chars)
      BY <1>4, <1>6, CatType
    <2>. QED
      BY <1>1, <1>2, <2>1, <2>2
  <1>. HIDE DEF line
  <1>8. FlushOf(b, f)
    BY <1>7, AfterLineIs
  <1>9. f.out \in Seq(Chars) /\ f.rest \in Seq(Chars) /\ f.faults \in {0, 1}
    BY <1>8 DEF FlushOf
  <1>10. /\ logFiles' \in [Days -> Seq(Chars)] /\ logFiles'[today] = Cat(p.files[today], f.out)
         /\ \A d \in Days : d # today => logFiles'[d] = p.files[d]
         /\ FlattenSeq(logFiles') = Cat(before, f.out)
    <2>1. OnlyBehind(p.files, today, f.out, logFiles')
      <3>1. p.files \in [Days -> Seq(Chars)] /\ today \in Days /\ f.out \in Seq(Chars)
        BY <1>5, <1>6, <1>9
      <3>2. \A d \in Days : d > today => p.files[d] = << >>
        BY <1>6
      <3>3. OnlyBehind(p.files, today, f.out, Appended(p.files, today, f.out))
        BY <3>1, <3>2, AppendedTo
      <3>. QED
        BY <1>1, <3>3
    <2>. QED
      BY <2>1 DEF OnlyBehind
  <1>11. before \in Seq(Chars)
    <2>1. LastDay \in Nat \ {0} /\ p.files \in [1 .. LastDay -> Seq(Chars)]
      BY <1>6, LoggerAssumption DEF Days
    <2>. QED
      BY <2>1, FlattenType
  <1>12. Held' = logged' /\ lost' = << >> /\ lost' \in Seq(Chars)
    <2>1. WithoutNul(Cat(f.out, f.rest)) = WithoutNul(b)
      BY <1>8 DEF FlushOf
    <2>. HIDE DEF before
    <2>2. WithoutNul(Cat(Cat(before, f.out), f.rest)) = WithoutNul(Cat(before, b))
      <3>. HIDE DEF b
      <3>. QED
        BY <1>7, <1>9, <1>11, <2>1, NulsMoved
    <2>3. WithoutNul(Cat(before, b)) = Cat(WithoutNul(Cat(before, p.rest)), WithoutNul(line))
      BY <1>4, <1>6, <1>11, NulsBehind
    <2>4. WithoutNul(Cat(before, p.rest)) = logged
      BY <1>3 DEF ReadyOf, before
    <2>. QED
      BY <1>1, <1>2, <1>4, <1>7, <1>10, <2>2, <2>3, <2>4 DEF LogInv, Held
  <1>13. k \in Nat /\ logFaults' \in Nat /\ k <= logFaults'
    BY <1>1, <1>5, <1>6, <1>9
  <1>14. LogType'
    <2>1. logged' \in Seq(Chars)
      BY <1>4, <1>5, <1>7, CatType
    <2>2. block' \in Seq(Chars)
      BY <1>1, <1>9
    <2>. QED
      BY <1>2, <1>5, <1>10, <1>12, <1>13, <2>1, <2>2 DEF LogType, Days
  <1>15. Later'
    <2>1. ASSUME NEW d \in Days, d > today PROVE logFiles'[d] = << >>
      <3>1. d # today
        BY <1>5, <2>1 DEF Days
      <3>. QED
        BY <1>6, <1>10, <2>1, <3>1
    <2>. QED
      BY <1>2, <2>1 DEF Later
  <1>16. Dated(f.out, today, k) /\ Dated(f.rest, today, k)
    <2>1. Dated(p.rest, today, k)
      BY <1>3 DEF ReadyOf
    <2>2. Dated(line, today, k)
      BY <1>4, <1>13
    <2>3. Dated(b, today, k)
      BY <1>4, <1>6, <2>1, <2>2, DatedBoth
    <2>. HIDE DEF b, k
    <2>. QED
      BY <1>5, <1>8, <1>13, <2>3 DEF FlushOf
  <1>17. ASSUME NEW d \in Days PROVE Dated(logFiles'[d], d, logFaults')
    <2>1. p.files[d] \in Seq(Chars) /\ logFiles'[d] \in Seq(Chars) /\ d \in Nat
      <3>1. d \in Nat
        BY DEF Days
      <3>2. p.files[d] \in Seq(Chars)
        BY <1>6
      <3>3. logFiles'[d] \in Seq(Chars)
        BY <1>10
      <3>. QED
        BY <3>1, <3>2, <3>3
    <2>2. Dated(p.files[d], d, k)
      BY <1>3 DEF ReadyOf
    <2>. HIDE DEF k
    <2>3. Dated(logFiles'[d], d, k)
      <3>1. CASE d = today
        BY <1>9, <1>10, <1>16, <2>1, <2>2, <3>1, DatedBoth
      <3>2. CASE d # today
        BY <1>10, <2>2, <3>2
      <3>. QED
        BY <3>1, <3>2
    <2>4. d <= d
      BY <2>1
    <2>. QED
      BY <1>13, <2>1, <2>3, <2>4, DatedOn
  <1>18. Dated(block', fileDay', logFaults')
    <2>. HIDE DEF k
    <2>1. Dated(f.rest, today, logFaults')
      BY <1>5, <1>9, <1>13, <1>16, DatedOn
    <2>. QED
      BY <1>1, <1>2, <2>1
  <1>19. fileDay' # 0
    BY <1>2, <1>5
  <1>20. Cat(Held', lost') = logged'
    <2>1. logged' \in Seq(Chars)
      BY <1>14 DEF LogType
    <2>. QED
      BY <1>12, <2>1, CatNone
  <1>21. RoomForLine'
    <2>1. f.faults = 0 => f.rest = << >> \/ (f.rest = b /\ ~(blockSize - Len(b) < MaxLine))
      BY <1>7, AfterLineIs
    <2>2. logFaults' = 0 => f.faults = 0
      BY <1>1, <1>5, <1>6, <1>9
    <2>3. Len(b) \in Nat /\ MaxLine \in Nat
      BY <1>7, LoggerAssumption
    <2>. HIDE DEF b
    <2>. QED
      BY <1>1, <1>2, <1>5, <2>1, <2>2, <2>3 DEF RoomForLine
  <1>. QED
    BY <1>12, <1>14, <1>15, <1>17, <1>18, <1>19, <1>20, <1>21 DEF LogInv

LEMMA LogInductive == LogSpec => []LogInv
  <1>1. LogInv /\ [LogNext]_logVars => LogInv'
    BY LogStays, MidnightKeeps, OpenFailsKeeps, OpenLogKeeps, CloseLogKeeps, WriteLineKeeps
    DEF LogNext
  <1>. QED
    BY <1>1, LogInitEstablishes, PTL DEF LogSpec

\* What is in the files and in the block is what was logged, for every number of days, every
\* size of the block and of the lines and every number of failed writes, as long as no line
\* ran over the end of the block: a flush leaves what it did not write in the block, in
\* order, and the file that the block goes to is behind every other with something in it
\* (cpp:92-232).  What a fini may lose is the end, and only if a write failed; and without
\* a failed write the block keeps room for a line.
THEOREM LoggedIsWritten == LogSpec => []LogIntact
  <1>1. LogInv => LogIntact
    BY Zenon DEF LogInv, LogIntact, Held, Written, Cat
  <1>. QED
    BY <1>1, LogInductive, PTL

\* A line is in the file of the date stamped on it, unless a write fell short or failed:
\* a change of the file empties the block first (cpp:108-114).
THEOREM StampsMatch == LogSpec => []StampMatchesFile
  <1>1. LogInv => StampMatchesFile
    <2>1. ASSUME LogInv, NEW d \in Days, NEW i \in DOMAIN logFiles[d]
          PROVE  logFiles[d][i] # Nul =>
                    logFiles[d][i].day <= d /\ (logFaults = 0 => logFiles[d][i].day = d)
      <3>1. Dated(logFiles[d], d, logFaults)
        BY <2>1 DEF LogInv
      <3>2. logFiles[d] \in Seq(Chars)
        BY <2>1 DEF LogInv, LogType
      <3>3. i \in 1 .. Len(logFiles[d])
        BY <2>1, <3>2
      <3>. QED
        BY <3>1, <3>3 DEF Dated
    <2>. QED
      BY <2>1 DEF StampMatchesFile
  <1>. QED
    BY <1>1, LogInductive, PTL

-----------------------------------------------------------------------------
\* UnixConfig: a list holds nodes of its bucket, each key once.
PlacedIn(s, b) ==
    \A i \in 1 .. Len(s) :
        /\ BucketOf[s[i].key] = b
        /\ \A j \in 1 .. Len(s) : s[i].key = s[j].key => i = j

AllChains == [1 .. Buckets -> Seq(Pairs)]

GoodChains == {cs \in AllChains : \A b \in 1 .. Buckets : PlacedIn(cs[b], b)}

DictOf(cs) == [k \in Keys |-> Get(cs, k)]

Dicts == [Keys -> Settings \cup {NoSetting}]

\* The inductive invariant.
ConfigInv == chains \in GoodChains /\ configFile \in Seq(Pairs)

\* What a list says of a key.
Says(s, k, v) ==
    \/ v = NoSetting /\ \A i \in 1 .. Len(s) : s[i].key # k
    \/ \E i \in 1 .. Len(s) : s[i].key = k /\ s[i].value = v

LEMMA BucketIs == \A k \in Keys : BucketOf[k] \in 1 .. Buckets
BY ConfigAssumption

LEMMA ListIs ==
    ASSUME NEW cs \in GoodChains, NEW b \in 1 .. Buckets
    PROVE  /\ cs[b] \in Seq(Pairs) /\ PlacedIn(cs[b], b) /\ Len(cs[b]) \in Nat
           /\ \A i \in 1 .. Len(cs[b]) : cs[b][i] \in Pairs
  <1>1. cs[b] \in Seq(Pairs) /\ PlacedIn(cs[b], b)
    BY DEF GoodChains, AllChains
  <1>. DEFINE s == cs[b]
  <1>. HIDE DEF s
  <1>2. s \in Seq(Pairs) => Len(s) \in Nat /\ \A i \in 1 .. Len(s) : s[i] \in Pairs
    OBVIOUS
  <1>. QED
    BY <1>1, <1>2 DEF s

LEMMA NodeIs ==
    ASSUME NEW cs, NEW k, NEW s, s = cs[BucketOf[k]], Len(s) \in Nat
    PROVE  \/ NodeAt(cs, k) = 0 /\ \A i \in 1 .. Len(s) : s[i].key # k
           \/ NodeAt(cs, k) \in 1 .. Len(s) /\ s[NodeAt(cs, k)].key = k
  <1>. DEFINE I == {i \in 1 .. Len(s) : s[i].key = k}
  <1>1. NodeAt(cs, k) = IF I # {} THEN Min(I) ELSE 0
    BY DEF NodeAt, SelectInSeq
  <1>2. CASE I = {}
    BY <1>1, <1>2
  <1>3. CASE I # {}
    <2>1. \E m \in I : \A j \in I : m <= j
      <3>1. I \in SUBSET Nat
        OBVIOUS
      <3>. HIDE DEF I
      <3>. QED
        BY <1>3, <3>1, LeastOf
    <2>2. Min(I) \in I
      BY <2>1 DEF Min
    <2>. QED
      BY <1>1, <1>3, <2>2
  <1>. QED
    BY <1>2, <1>3

\* get finds what the list says.
LEMMA GetIs ==
    ASSUME NEW cs \in GoodChains, NEW k \in Keys, NEW v
    PROVE  Says(cs[BucketOf[k]], k, v) <=> Get(cs, k) = v
  <1>. DEFINE b == BucketOf[k]   s == cs[b]   at == NodeAt(cs, k)
  <1>1. b \in 1 .. Buckets
    BY BucketIs
  <1>2. /\ PlacedIn(s, b) /\ Len(s) \in Nat
    BY <1>1, ListIs
  <1>3. \/ at = 0 /\ \A i \in 1 .. Len(s) : s[i].key # k
        \/ at \in 1 .. Len(s) /\ s[at].key = k
    BY <1>2, NodeIs
  <1>4. Get(cs, k) = IF at = 0 THEN NoSetting ELSE s[at].value
    BY DEF Get
  <1>. HIDE DEF b, s, at
  <1>5. \A i \in 1 .. Len(s) : s[i].key = k /\ at # 0 => i = at
    BY <1>3 , <1>2 DEF PlacedIn
  <1>6. Says(s, k, v) <=> Get(cs, k) = v
    <2>1. CASE at = 0
      BY <1>3, <1>4, <1>2, <2>1 DEF Says
    <2>2. CASE at # 0
      BY <1>3, <1>4, <1>5, <2>2 DEF Says
    <2>. QED
      BY <2>1, <2>2
  <1>. QED
    BY <1>6 DEF s, b

LEMMA DictIs == ASSUME NEW cs \in GoodChains PROVE DictOf(cs) \in Dicts
  <1>1. ASSUME NEW k \in Keys PROVE Get(cs, k) \in Settings \cup {NoSetting}
    <2>. DEFINE b == BucketOf[k]   s == cs[b]   v == Get(cs, k)
    <2>1. /\ Len(s) \in Nat /\ \A i \in 1 .. Len(s) : s[i] \in Pairs
      BY BucketIs, ListIs
    <2>2. Says(s, k, v)
      BY GetIs
    <2>. HIDE DEF s, v
    <2>3. v \in Settings \cup {NoSetting}
      BY <2>1, <2>2 DEF Says, Pairs
    <2>. QED
      BY <2>3 DEF v
  <1>. QED
    BY <1>1 DEF DictOf, Dicts

\* One list is replaced, by one that says w of the key x and of other keys the same.
LEMMA ListReplaced ==
    ASSUME NEW cs \in GoodChains, NEW x \in Keys, NEW t \in Seq(Pairs), NEW w,
           PlacedIn(t, BucketOf[x]), Says(t, x, w),
           \A k \in Keys \ {x} : \A v : Says(cs[BucketOf[x]], k, v) => Says(t, k, v)
    PROVE  /\ [cs EXCEPT ![BucketOf[x]] = t] \in GoodChains
           /\ DictOf([cs EXCEPT ![BucketOf[x]] = t]) = [DictOf(cs) EXCEPT ![x] = w]
  <1>. DEFINE b == BucketOf[x]   ds == [cs EXCEPT ![b] = t]
  <1>1. b \in 1 .. Buckets /\ cs \in AllChains
    BY BucketIs DEF GoodChains
  <1>2. ds \in AllChains /\ ds[b] = t /\ \A c \in 1 .. Buckets : c # b => ds[c] = cs[c]
    BY <1>1 DEF AllChains
  <1>. HIDE DEF ds
  <1>3. ds \in GoodChains
    BY <1>1, <1>2 DEF GoodChains
  <1>4. ASSUME NEW k \in Keys PROVE Get(ds, k) = IF k = x THEN w ELSE Get(cs, k)
    <2>. DEFINE c == BucketOf[k]   v == Get(cs, k)
    <2>1. c \in 1 .. Buckets /\ Says(cs[c], k, v)
      BY BucketIs, GetIs
    <2>2. CASE k = x
      BY <1>2, <1>3, <2>2, GetIs
    <2>3. CASE k # x /\ c = b
      <3>1. Says(ds[c], k, v)
        BY <1>2, <2>1, <2>3
      <3>. QED
        BY <1>3, <2>3, <3>1, GetIs
    <2>4. CASE k # x /\ c # b
      <3>1. Says(ds[c], k, v)
        BY <1>2, <2>1, <2>4
      <3>. QED
        BY <1>3, <2>4, <3>1, GetIs
    <2>. QED
      BY <2>2, <2>3, <2>4
  <1>5. DictOf(ds) = [DictOf(cs) EXCEPT ![x] = w]
    BY <1>4 DEF DictOf
  <1>. QED
    BY <1>3, <1>5 DEF ds

LEMMA StoredIs ==
    ASSUME NEW cs \in GoodChains, NEW node \in Pairs
    PROVE  /\ Stored(cs, node) \in GoodChains
           /\ DictOf(Stored(cs, node)) = [DictOf(cs) EXCEPT ![node.key] = node.value]
  <1>. DEFINE x == node.key   w == node.value   b == BucketOf[x]   s == cs[b]   N == Len(s)
              at == NodeAt(cs, x)
  <1>1. x \in Keys /\ w \in Settings
    BY DEF Pairs
  <1>2. b \in 1 .. Buckets /\ s \in Seq(Pairs) /\ PlacedIn(s, b) /\ N \in Nat
    BY <1>1, BucketIs, ListIs
  <1>3. \/ at = 0 /\ \A i \in 1 .. N : s[i].key # x
        \/ at \in 1 .. N /\ s[at].key = x
    BY <1>2, NodeIs
  <1>4. CASE at # 0
    <2>. DEFINE t == ReplaceAt(s, at, node)
    <2>1. Stored(cs, node) = [cs EXCEPT ![b] = t]
      <3>1. s = cs[b]
        OBVIOUS
      <3>. HIDE DEF s
      <3>. QED
        BY <1>4, <3>1 DEF Stored, ReplaceAt
    <2>2. t \in Seq(Pairs) /\ Len(t) = N /\ t[at] = node /\ \A i \in 1 .. N : i # at => t[i] = s[i]
      <3>. HIDE DEF s, at
      <3>1. t \in [1 .. N -> Pairs] /\ t[at] = node /\ \A i \in 1 .. N : i # at => t[i] = s[i]
        BY <1>2, <1>3, <1>4 DEF ReplaceAt
      <3>. HIDE DEF t, N
      <3>2. t \in Seq(Pairs) /\ Len(t) = N
        BY <1>2, <3>1
      <3>. QED
        BY <3>1, <3>2
    <2>. HIDE DEF t, s, at, N
    <2>3. \A i \in 1 .. N : t[i].key = s[i].key
      BY <1>3, <1>4, <2>2
    <2>4. PlacedIn(t, b)
      BY <1>2, <2>2, <2>3 DEF PlacedIn, N
    <2>5. Says(t, x, w)
      BY <1>3, <1>4, <2>2 DEF Says
    <2>6. ASSUME NEW k \in Keys \ {x}, NEW v, Says(s, k, v) PROVE Says(t, k, v)
      <3>1. CASE \A i \in 1 .. N : s[i].key # k
        BY <2>2, <2>3, <2>6, <3>1 DEF Says, N
      <3>2. CASE \E i \in 1 .. N : s[i].key = k /\ s[i].value = v
        <4>1. PICK i \in 1 .. N : s[i].key = k /\ s[i].value = v
          BY <3>2
        <4>2. i # at
          BY <1>3, <1>4, <2>6, <4>1
        <4>. QED
          BY <2>2, <4>1, <4>2 DEF Says
      <3>. QED
        BY <2>6, <3>1, <3>2 DEF Says, N
    <2>. HIDE DEF x, w
    <2>8. /\ [cs EXCEPT ![BucketOf[x]] = t] \in GoodChains
          /\ DictOf([cs EXCEPT ![BucketOf[x]] = t]) = [DictOf(cs) EXCEPT ![x] = w]
      BY <1>1, <2>2, <2>4, <2>5, <2>6, ListReplaced DEF s
    <2>. QED
      BY <2>1, <2>8 DEF x, w
  <1>5. CASE at = 0
    <2>. DEFINE one == <<node>>   t == Cat(one, s)
    <2>1. Stored(cs, node) = [cs EXCEPT ![b] = t]
      <3>1. Stored(cs, node) = [cs EXCEPT ![b] = <<node>> \o @]
        BY <1>5, Zenon DEF Stored
      <3>. QED
        BY <3>1, Zenon DEF Cat
    <2>2. one \in Seq(Pairs) /\ Len(one) = 1 /\ one[1] = node
      OBVIOUS
    <2>. HIDE DEF one, s, at, N
    <2>3. t \in Seq(Pairs) /\ Joined(t, one, s)
      BY <1>2, <2>2, BothAre
    <2>. HIDE DEF t
    <2>4. /\ Len(t) = N + 1 /\ t[1] = node
          /\ \A i \in 1 .. N : i + 1 \in 1 .. Len(t) /\ t[i + 1] = s[i]
          /\ \A i \in 1 .. Len(t) : i = 1 \/ (i - 1 \in 1 .. N /\ t[i] = s[i - 1])
      <3>1. Len(t) = 1 + N /\ \A i \in 1 .. N : t[1 + i] = s[i]
        BY <2>2, <2>3 DEF Joined, N
      <3>2. t[1] = node
        BY <2>2, <2>3 DEF Joined
      <3>3. \A i \in 1 .. N : 1 + i = i + 1
        BY <1>2
      <3>4. \A i \in 1 .. Len(t) : i = 1 \/ (i - 1 \in 1 .. N /\ 1 + (i - 1) = i)
        BY <1>2, <3>1
      <3>. QED
        BY <1>2, <3>1, <3>2, <3>3, <3>4
    <2>5. PlacedIn(t, b)
      <3>1. ASSUME NEW i \in 1 .. Len(t)
            PROVE  /\ BucketOf[t[i].key] = b
                   /\ \A j \in 1 .. Len(t) : t[i].key = t[j].key => i = j
        <4>1. CASE i = 1
          BY <1>3, <1>5, <2>4, <4>1 DEF b
        <4>2. CASE i # 1
          <5>1. i - 1 \in 1 .. N /\ t[i] = s[i - 1] /\ t[i].key # x
            BY <1>3, <1>5, <2>4, <4>2
          <5>2. ASSUME NEW j \in 1 .. Len(t), t[i].key = t[j].key PROVE i = j
            <6>1. j # 1
              BY <2>4, <5>1, <5>2
            <6>2. j - 1 \in 1 .. N /\ t[j] = s[j - 1]
              BY <2>4, <6>1
            <6>3. i - 1 = j - 1
              BY <1>2, <5>1, <5>2, <6>2 DEF PlacedIn, N
            <6>. QED
              BY <6>3
          <5>. QED
            BY <1>2, <5>1, <5>2 DEF PlacedIn, N
        <4>. QED
          BY <4>1, <4>2
      <3>. QED
        BY <3>1 DEF PlacedIn
    <2>6. Says(t, x, w)
      <3>1. 1 \in 1 .. Len(t)
        BY <1>2, <2>4
      <3>. QED
        BY <2>4, <3>1 DEF Says
    <2>7. ASSUME NEW k \in Keys \ {x}, NEW v, Says(s, k, v) PROVE Says(t, k, v)
      <3>1. CASE v = NoSetting /\ \A i \in 1 .. N : s[i].key # k
        <4>1. \A i \in 1 .. Len(t) : t[i].key # k
          BY <2>4, <2>7, <3>1
        <4>. QED
          BY <3>1, <4>1 DEF Says
      <3>2. CASE \E i \in 1 .. N : s[i].key = k /\ s[i].value = v
        BY <2>4, <3>2 DEF Says
      <3>. QED
        BY <2>7, <3>1, <3>2 DEF Says, N
    <2>. HIDE DEF x, w
    <2>8. /\ [cs EXCEPT ![BucketOf[x]] = t] \in GoodChains
          /\ DictOf([cs EXCEPT ![BucketOf[x]] = t]) = [DictOf(cs) EXCEPT ![x] = w]
      BY <1>1, <2>3, <2>5, <2>6, <2>7, ListReplaced DEF s
    <2>. QED
      BY <2>1, <2>8 DEF x, w
  <1>. QED
    BY <1>4, <1>5

LEMMA RemovedIs ==
    ASSUME NEW cs \in GoodChains, NEW x \in Keys, NodeAt(cs, x) # 0
    PROVE  LET ds == [cs EXCEPT ![BucketOf[x]] = RemoveAt(@, NodeAt(cs, x))]
           IN  ds \in GoodChains /\ DictOf(ds) = [DictOf(cs) EXCEPT ![x] = NoSetting]
  <1>. DEFINE b == BucketOf[x]   s == cs[b]   N == Len(s)   at == NodeAt(cs, x)
              t1 == SubSeq(s, 1, at - 1)   t2 == SubSeq(s, at + 1, N)   t == Cat(t1, t2)
  <1>1. b \in 1 .. Buckets /\ s \in Seq(Pairs) /\ PlacedIn(s, b) /\ N \in Nat
        /\ \A i \in 1 .. N : s[i] \in Pairs
    BY BucketIs, ListIs
  <1>2. at \in 1 .. N /\ s[at].key = x
    BY <1>1, NodeIs
  <1>3. [cs EXCEPT ![b] = RemoveAt(@, at)] = [cs EXCEPT ![b] = t]
    BY Zenon DEF RemoveAt, Cat
  <1>. HIDE DEF s, at, N
  <1>4. /\ t1 \in Seq(Pairs) /\ Len(t1) = at - 1 /\ \A i \in 1 .. at - 1 : t1[i] = s[i]
    <2>1. /\ t1 \in Seq(Pairs) /\ Len(t1) = IF 1 <= at - 1 THEN (at - 1) - 1 + 1 ELSE 0
          /\ \A i \in 1 .. (at - 1) - 1 + 1 : t1[i] = s[1 + i - 1]
      <3>1. \A i \in 1 .. at - 1 : s[i] \in Pairs
        BY <1>1, <1>2
      <3>. QED
        BY <1>1, <1>2, <3>1, SubSeqProperties
    <2>2. (at - 1) - 1 + 1 = at - 1 /\ \A i \in 1 .. at - 1 : 1 + i - 1 = i
      BY <1>2
    <2>3. ~(1 <= at - 1) => at - 1 = 0
      BY <1>2
    <2>. HIDE DEF t1
    <2>. QED
      BY <2>1, <2>2, <2>3
  <1>5. /\ t2 \in Seq(Pairs) /\ Len(t2) = N - at /\ \A i \in 1 .. N - at : t2[i] = s[at + i]
    <2>1. /\ t2 \in Seq(Pairs) /\ Len(t2) = IF at + 1 <= N THEN N - (at + 1) + 1 ELSE 0
          /\ \A i \in 1 .. N - (at + 1) + 1 : t2[i] = s[(at + 1) + i - 1]
      <3>1. \A i \in at + 1 .. N : s[i] \in Pairs
        BY <1>1, <1>2
      <3>2. at + 1 \in Int /\ N \in Int
        BY <1>1, <1>2
      <3>. QED
        BY <3>1, <3>2, SubSeqProperties
    <2>2. N - (at + 1) + 1 = N - at /\ \A i \in 1 .. N - at : (at + 1) + i - 1 = at + i
      BY <1>1, <1>2
    <2>3. ~(at + 1 <= N) => N - at = 0
      BY <1>1, <1>2
    <2>. HIDE DEF t2
    <2>. QED
      BY <2>1, <2>2, <2>3
  <1>. HIDE DEF t1, t2
  <1>6. t \in Seq(Pairs) /\ Joined(t, t1, t2)
    BY <1>4, <1>5, BothAre
  <1>. HIDE DEF t
  <1>7. /\ Len(t) = N - 1 /\ \A i \in 1 .. at - 1 : t[i] = s[i]
        /\ \A i \in at .. N - 1 : t[i] = s[i + 1]
    <2>1. Len(t) = (at - 1) + (N - at) /\ \A i \in 1 .. at - 1 : t[i] = t1[i]
      BY <1>4, <1>5, <1>6 DEF Joined
    <2>2. \A j \in 1 .. N - at : t[(at - 1) + j] = s[at + j]
      BY <1>4, <1>5, <1>6 DEF Joined
    <2>3. ASSUME NEW i \in at .. N - 1 PROVE t[i] = s[i + 1]
      <3>. DEFINE j == i - (at - 1)
      <3>1. j \in 1 .. N - at /\ (at - 1) + j = i /\ at + j = i + 1
        BY <1>1, <1>2
      <3>. HIDE DEF j
      <3>. QED
        BY <2>2, <3>1
    <2>. QED
      BY <1>1, <1>2, <1>4, <2>1, <2>3
  <1>. DEFINE from == [i \in 1 .. N - 1 |-> IF i < at THEN i ELSE i + 1]
  <1>8. /\ \A i \in 1 .. Len(t) : from[i] \in 1 .. N /\ from[i] # at /\ t[i] = s[from[i]]
        /\ \A i, j \in 1 .. Len(t) : from[i] = from[j] => i = j
        /\ \A m \in 1 .. N : m # at => \E i \in 1 .. Len(t) : from[i] = m
    <2>0. Len(t) = N - 1 /\ \A i \in 1 .. Len(t) : from[i] = IF i < at THEN i ELSE i + 1
      BY <1>7
    <2>. HIDE DEF from
    <2>1. ASSUME NEW i \in 1 .. Len(t)
          PROVE  from[i] \in 1 .. N /\ from[i] # at /\ t[i] = s[from[i]]
      <3>1. CASE i < at
        <4>1. i \in 1 .. at - 1
          BY <1>2, <3>1
        <4>. QED
          BY <1>1, <1>2, <1>7, <2>0, <3>1, <4>1
      <3>2. CASE ~(i < at)
        <4>1. i \in at .. N - 1
          BY <1>1, <1>2, <2>0, <3>2
        <4>. QED
          BY <1>1, <1>2, <1>7, <2>0, <3>2, <4>1
      <3>. QED
        BY <3>1, <3>2
    <2>2. \A i, j \in 1 .. Len(t) : from[i] = from[j] => i = j
      BY <1>1, <1>2, <2>0
    <2>3. ASSUME NEW m \in 1 .. N, m # at PROVE \E i \in 1 .. Len(t) : from[i] = m
      <3>1. CASE m < at
        BY <1>1, <1>2, <2>0, <3>1
      <3>2. CASE m > at
        <4>1. m - 1 \in 1 .. Len(t) /\ ~(m - 1 < at) /\ (m - 1) + 1 = m
          BY <1>1, <1>2, <2>0, <3>2
        <4>2. from[m - 1] = m
          BY <2>0, <4>1
        <4>. QED
          BY <4>1, <4>2
      <3>. QED
        BY <1>1, <1>2, <2>3, <3>1, <3>2
    <2>. QED
      BY <2>1, <2>2, <2>3
  <1>. HIDE DEF from
  <1>9. PlacedIn(t, b)
    <2>1. ASSUME NEW i \in 1 .. Len(t), NEW j \in 1 .. Len(t), t[i].key = t[j].key PROVE i = j
      <3>1. /\ from[i] \in 1 .. N /\ from[j] \in 1 .. N
            /\ s[from[i]].key = s[from[j]].key
        BY <1>8, <2>1
      <3>2. \A m, n \in 1 .. N : s[m].key = s[n].key => m = n
        BY <1>1 DEF PlacedIn, N
      <3>3. from[i] = from[j]
        BY <3>1, <3>2
      <3>. QED
        BY <1>8, <3>3
    <2>2. \A i \in 1 .. Len(t) : BucketOf[t[i].key] = b
      BY <1>1, <1>8 DEF PlacedIn, N
    <2>. QED
      BY <2>1, <2>2 DEF PlacedIn
  <1>10. Says(t, x, NoSetting)
    <2>1. \A i \in 1 .. Len(t) : t[i].key # x
      BY <1>1, <1>2, <1>8 DEF PlacedIn, N
    <2>. QED
      BY <2>1 DEF Says
  <1>11. ASSUME NEW k \in Keys \ {x}, NEW v, Says(s, k, v) PROVE Says(t, k, v)
    <2>1. CASE v = NoSetting /\ \A i \in 1 .. N : s[i].key # k
      BY <1>8, <2>1 DEF Says
    <2>2. CASE \E i \in 1 .. N : s[i].key = k /\ s[i].value = v
      <3>1. PICK m \in 1 .. N : s[m].key = k /\ s[m].value = v
        BY <2>2
      <3>2. m # at
        BY <1>2, <3>1
      <3>3. PICK i \in 1 .. Len(t) : from[i] = m
        BY <1>8, <3>2
      <3>4. t[i] = s[m]
        BY <1>8, <3>3
      <3>. QED
        BY <3>1, <3>4 DEF Says
    <2>. QED
      BY <1>11, <2>1, <2>2 DEF Says, N
  <1>12. [cs EXCEPT ![b] = t] \in GoodChains
         /\ DictOf([cs EXCEPT ![b] = t]) = [DictOf(cs) EXCEPT ![x] = NoSetting]
    BY <1>6, <1>9, <1>10, <1>11, ListReplaced DEF s
  <1>. QED
    BY <1>3, <1>12 DEF at

-----------------------------------------------------------------------------
\* The recursions.
Lines == Pairs \cup {Junk}

LEMMA ParsedIs ==
    ASSUME NEW cs \in GoodChains, NEW line \in Lines
    PROVE  /\ Parsed(cs, line) \in GoodChains
           /\ line = Junk => Parsed(cs, line) = cs
           /\ line # Junk => DictOf(Parsed(cs, line)) = Map!With(DictOf(cs), line)
BY StoredIs DEF Parsed, Lines, Map!With

LEMMA WithIs == ASSUME NEW d \in Dicts, NEW pair \in Pairs PROVE Map!With(d, pair) \in Dicts
BY DEF Map!With, Dicts, Pairs

\* Loaded: the lists after each line.
LoadTrace(cs, text, f) ==
    f[0] = cs /\ \A n \in 1 .. Len(text) : f[n] = Parsed(f[n - 1], text[n])

LEMMA LoadedExists ==
    ASSUME NEW cs \in GoodChains, NEW text \in Seq(Lines)
    PROVE  \E f \in [0 .. Len(text) -> GoodChains] :
              LoadTrace(cs, text, f) /\ Loaded(cs, text) = f[Len(text)]
  <1>. DEFINE N == Len(text)
              e == [p \in GoodChains \X (1 .. N) |-> Parsed(p[1], text[p[2]])]
              Is(f) == f = [n \in 0 .. N |-> IF n = 0 THEN cs ELSE Parsed(f[n - 1], text[n])]
  <1>1. N \in Nat /\ \A n \in 1 .. N : text[n] \in Lines
    OBVIOUS
  <1>2. e \in Steps(GoodChains, N)
    <2>1. ASSUME NEW p \in GoodChains \X (1 .. N)
          PROVE  (Parsed(p[1], text[p[2]])) \in GoodChains
      <3>1. p[1] \in GoodChains /\ text[p[2]] \in Lines
        BY <1>1
      <3>. QED
        BY <3>1, ParsedIs
    <2>. QED
      BY <2>1 DEF Steps
  <1>3. cs \in GoodChains
    OBVIOUS
  <1>. HIDE DEF e, N
  <1>4. PICK g \in [0 .. N -> GoodChains] : Iterates(g, cs, e, N)
    BY <1>1, <1>2, <1>3, Iterated DEF Traces
  <1>5. ASSUME NEW n \in 1 .. N
        PROVE  g[n] = Parsed(g[n - 1], text[n])
    <2>1. n - 1 \in 0 .. N /\ g[n - 1] \in GoodChains
      BY <1>1, <1>4
    <2>2. <<g[n - 1], n>> \in GoodChains \X (1 .. N)
      BY <2>1
    <2>3. e[<<g[n - 1], n>>] = Parsed(g[n - 1], text[n])
      BY <2>2 DEF e
    <2>. QED
      BY <1>4, <2>3 DEF Iterates
  <1>6. Is(g)
    <2>1. \A n \in 0 .. N : n # 0 => n \in 1 .. N
      BY <1>1
    <2>2. \A n \in 0 .. N : g[n] = IF n = 0 THEN cs ELSE Parsed(g[n - 1], text[n])
      BY <1>4, <1>5, <2>1 DEF Iterates
    <2>. QED
      BY <2>2
  <1>7. PICK f : Is(f) /\ Loaded(cs, text) = f[N]
    BY <1>6, Zenon DEF Loaded, N
  <1>8. f = [n \in 0 .. N |-> f[n]] /\ g = [n \in 0 .. N |-> g[n]] /\ f[0] = g[0]
    BY <1>1, <1>4, <1>7 DEF Iterates
  <1>9. ASSUME NEW n \in 1 .. N, f[n - 1] = g[n - 1] PROVE f[n] = g[n]
    <2>1. n \in 0 .. N /\ n # 0
      BY <1>1
    <2>2. f[n] = Parsed(f[n - 1], text[n])
      BY <1>7, <2>1
    <2>. QED
      BY <1>5, <1>9, <2>2
  <1>10. f = g
    <2>1. Alike(f, g, N)
      BY <1>8, <1>9, Zenon DEF Alike
    <2>. QED
      BY <1>1, <2>1, SameTrace
  <1>11. LoadTrace(cs, text, g)
    BY <1>4, <1>5, Zenon DEF LoadTrace, Iterates, N
  <1>. QED
    BY <1>4, <1>7, <1>10, <1>11 DEF N

\* PairsOf: the pairs up to each line.
PairsTrace(text, f) ==
    /\ f[0] = << >>
    /\ \A n \in 1 .. Len(text) :
          f[n] = IF text[n] = Junk THEN f[n - 1] ELSE Append(f[n - 1], text[n])

LEMMA PairsExist ==
    ASSUME NEW text \in Seq(Lines)
    PROVE  \E f \in [0 .. Len(text) -> Seq(Pairs)] :
              PairsTrace(text, f) /\ PairsOf(text) = f[Len(text)]
  <1>. DEFINE N == Len(text)
              e == [p \in Seq(Pairs) \X (1 .. N) |->
                      IF text[p[2]] = Junk THEN p[1] ELSE Append(p[1], text[p[2]])]
              Is(f) == f = [n \in 0 .. N |-> IF n = 0 THEN << >>
                                             ELSE IF text[n] = Junk THEN f[n - 1]
                                             ELSE Append(f[n - 1], text[n])]
  <1>1. N \in Nat /\ \A n \in 1 .. N : text[n] \in Lines
    OBVIOUS
  <1>2. e \in Steps(Seq(Pairs), N)
    <2>1. ASSUME NEW p \in Seq(Pairs) \X (1 .. N)
          PROVE  (IF text[p[2]] = Junk THEN p[1] ELSE Append(p[1], text[p[2]])) \in Seq(Pairs)
      <3>1. p[1] \in Seq(Pairs) /\ text[p[2]] \in Lines
        BY <1>1
      <3>. QED
        BY <3>1, AppendProperties DEF Lines
    <2>. QED
      BY <2>1 DEF Steps
  <1>3. << >> \in Seq(Pairs)
    OBVIOUS
  <1>. HIDE DEF e, N
  <1>4. PICK g \in [0 .. N -> Seq(Pairs)] : Iterates(g, << >>, e, N)
    BY <1>1, <1>2, <1>3, Iterated DEF Traces
  <1>5. ASSUME NEW n \in 1 .. N
        PROVE  g[n] = IF text[n] = Junk THEN g[n - 1] ELSE Append(g[n - 1], text[n])
    <2>1. n - 1 \in 0 .. N /\ g[n - 1] \in Seq(Pairs)
      BY <1>1, <1>4
    <2>2. <<g[n - 1], n>> \in Seq(Pairs) \X (1 .. N)
      BY <2>1
    <2>3. e[<<g[n - 1], n>>] = IF text[n] = Junk THEN g[n - 1] ELSE Append(g[n - 1], text[n])
      BY <2>2 DEF e
    <2>. QED
      BY <1>4, <2>3 DEF Iterates
  <1>6. Is(g)
    <2>1. \A n \in 0 .. N : n # 0 => n \in 1 .. N
      BY <1>1
    <2>2. \A n \in 0 .. N : g[n] = IF n = 0 THEN << >>
                                   ELSE IF text[n] = Junk THEN g[n - 1]
                                   ELSE Append(g[n - 1], text[n])
      BY <1>4, <1>5, <2>1 DEF Iterates
    <2>. QED
      BY <2>2
  <1>7. PICK f : Is(f) /\ PairsOf(text) = f[N]
    BY <1>6, Zenon DEF PairsOf, N
  <1>8. f = [n \in 0 .. N |-> f[n]] /\ g = [n \in 0 .. N |-> g[n]] /\ f[0] = g[0]
    BY <1>1, <1>4, <1>7 DEF Iterates
  <1>9. ASSUME NEW n \in 1 .. N, f[n - 1] = g[n - 1] PROVE f[n] = g[n]
    <2>1. n \in 0 .. N /\ n # 0
      BY <1>1
    <2>2. f[n] = IF text[n] = Junk THEN f[n - 1] ELSE Append(f[n - 1], text[n])
      BY <1>7, <2>1
    <2>. QED
      BY <1>5, <1>9, <2>2
  <1>10. f = g
    <2>1. Alike(f, g, N)
      BY <1>8, <1>9, Zenon DEF Alike
    <2>. QED
      BY <1>1, <2>1, SameTrace
  <1>11. PairsTrace(text, g)
    BY <1>4, <1>5, Zenon DEF PairsTrace, Iterates, N
  <1>. QED
    BY <1>4, <1>7, <1>10, <1>11 DEF N

\* WithAll: the map after each pair.
WithTrace(d, pairs, f) ==
    f[0] = d /\ \A n \in 1 .. Len(pairs) : f[n] = Map!With(f[n - 1], pairs[n])

LEMMA WithAllExists ==
    ASSUME NEW d \in Dicts, NEW pairs \in Seq(Pairs)
    PROVE  \E f \in [0 .. Len(pairs) -> Dicts] :
              WithTrace(d, pairs, f) /\ Map!WithAll(d, pairs) = f[Len(pairs)]
  <1>. DEFINE N == Len(pairs)
              e == [p \in Dicts \X (1 .. N) |-> Map!With(p[1], pairs[p[2]])]
              Is(f) == f = [n \in 0 .. N |-> IF n = 0 THEN d ELSE Map!With(f[n - 1], pairs[n])]
  <1>1. N \in Nat /\ \A n \in 1 .. N : pairs[n] \in Pairs
    OBVIOUS
  <1>2. e \in Steps(Dicts, N)
    <2>1. ASSUME NEW p \in Dicts \X (1 .. N)
          PROVE  (Map!With(p[1], pairs[p[2]])) \in Dicts
      <3>1. p[1] \in Dicts /\ pairs[p[2]] \in Pairs
        BY <1>1
      <3>. QED
        BY <3>1, WithIs
    <2>. QED
      BY <2>1 DEF Steps
  <1>3. d \in Dicts
    OBVIOUS
  <1>. HIDE DEF e, N
  <1>4. PICK g \in [0 .. N -> Dicts] : Iterates(g, d, e, N)
    BY <1>1, <1>2, <1>3, Iterated DEF Traces
  <1>5. ASSUME NEW n \in 1 .. N
        PROVE  g[n] = Map!With(g[n - 1], pairs[n])
    <2>1. n - 1 \in 0 .. N /\ g[n - 1] \in Dicts
      BY <1>1, <1>4
    <2>2. <<g[n - 1], n>> \in Dicts \X (1 .. N)
      BY <2>1
    <2>3. e[<<g[n - 1], n>>] = Map!With(g[n - 1], pairs[n])
      BY <2>2 DEF e
    <2>. QED
      BY <1>4, <2>3 DEF Iterates
  <1>6. Is(g)
    <2>1. \A n \in 0 .. N : n # 0 => n \in 1 .. N
      BY <1>1
    <2>2. \A n \in 0 .. N : g[n] = IF n = 0 THEN d ELSE Map!With(g[n - 1], pairs[n])
      BY <1>4, <1>5, <2>1 DEF Iterates
    <2>. QED
      BY <2>2
  <1>7. PICK f : Is(f) /\ Map!WithAll(d, pairs) = f[N]
    BY <1>6, Zenon DEF Map!WithAll, N
  <1>8. f = [n \in 0 .. N |-> f[n]] /\ g = [n \in 0 .. N |-> g[n]] /\ f[0] = g[0]
    BY <1>1, <1>4, <1>7 DEF Iterates
  <1>9. ASSUME NEW n \in 1 .. N, f[n - 1] = g[n - 1] PROVE f[n] = g[n]
    <2>1. n \in 0 .. N /\ n # 0
      BY <1>1
    <2>2. f[n] = Map!With(f[n - 1], pairs[n])
      BY <1>7, <2>1
    <2>. QED
      BY <1>5, <1>9, <2>2
  <1>10. f = g
    <2>1. Alike(f, g, N)
      BY <1>8, <1>9, Zenon DEF Alike
    <2>. QED
      BY <1>1, <2>1, SameTrace
  <1>11. WithTrace(d, pairs, g)
    BY <1>4, <1>5, Zenon DEF WithTrace, Iterates, N
  <1>. QED
    BY <1>4, <1>7, <1>10, <1>11 DEF N

LEMMA WithNone == ASSUME NEW d \in Dicts PROVE Map!WithAll(d, << >>) = d
  <1>. DEFINE e == << >>
  <1>1. e \in Seq(Pairs) /\ Len(e) = 0
    OBVIOUS
  <1>. HIDE DEF e
  <1>2. Map!WithAll(d, e) = d
    <2>1. PICK f : WithTrace(d, e, f) /\ Map!WithAll(d, e) = f[Len(e)]
      BY <1>1, WithAllExists
    <2>. QED
      BY <1>1, <2>1 DEF WithTrace
  <1>. QED
    BY <1>2 DEF e

LEMMA WithOneMore ==
    ASSUME NEW d \in Dicts, NEW pairs \in Seq(Pairs), NEW pair \in Pairs
    PROVE  Map!WithAll(d, Append(pairs, pair)) = Map!With(Map!WithAll(d, pairs), pair)
  <1>. DEFINE more == Append(pairs, pair)   N == Len(pairs)
  <1>1. /\ more \in Seq(Pairs) /\ Len(more) = N + 1 /\ N \in Nat /\ more[N + 1] = pair
        /\ \A n \in 1 .. N : more[n] = pairs[n]
    BY AppendProperties
  <1>. HIDE DEF more
  <1>2. PICK f \in [0 .. N -> Dicts] : WithTrace(d, pairs, f) /\ Map!WithAll(d, pairs) = f[N]
    BY WithAllExists
  <1>3. PICK g \in [0 .. Len(more) -> Dicts] :
           WithTrace(d, more, g) /\ Map!WithAll(d, more) = g[Len(more)]
    BY <1>1, WithAllExists
  <1>. HIDE DEF N
  <1>. DEFINE T == {n \in 0 .. N : f[n] = g[n]}
  <1>4. 0 \in T
    BY <1>1, <1>2, <1>3 DEF WithTrace
  <1>5. ASSUME NEW n \in 1 .. N, n - 1 \in T PROVE n \in T
    <2>1. f[n] = Map!With(f[n - 1], pairs[n])
      BY <1>2, Zenon DEF WithTrace, N
    <2>2. n \in 1 .. Len(more) /\ n \in 0 .. N
      BY <1>1
    <2>3. g[n] = Map!With(g[n - 1], more[n])
      BY <1>3, <2>2, Zenon DEF WithTrace
    <2>. QED
      BY <1>1, <1>5, <2>1, <2>2, <2>3
  <1>6. N \in T
    <2>1. N \in 0 .. N
      BY <1>1
    <2>. HIDE DEF T
    <2>. QED
      BY <1>1, <1>4, <1>5, <2>1, UpTheNumbers
  <1>7. g[N + 1] = Map!With(g[N], pair)
    <2>1. N + 1 \in 1 .. Len(more) /\ (N + 1) - 1 = N
      BY <1>1
    <2>2. g[N + 1] = Map!With(g[(N + 1) - 1], more[N + 1])
      BY <1>3, <2>1, Zenon DEF WithTrace
    <2>. QED
      BY <1>1, <2>1, <2>2
  <1>. QED
    BY <1>1, <1>2, <1>3, <1>6, <1>7 DEF more

\* Loading lines makes of the lists what the pairs in the lines make of the map.
LEMMA LoadedIs ==
    ASSUME NEW cs \in GoodChains, NEW text \in Seq(Lines)
    PROVE  /\ Loaded(cs, text) \in GoodChains
           /\ DictOf(Loaded(cs, text)) = Map!WithAll(DictOf(cs), PairsOf(text))
  <1>. DEFINE N == Len(text)   d == DictOf(cs)
  <1>1. N \in Nat /\ d \in Dicts /\ \A n \in 1 .. N : text[n] \in Lines
    BY DictIs
  <1>2. PICK f \in [0 .. N -> GoodChains] : LoadTrace(cs, text, f) /\ Loaded(cs, text) = f[N]
    BY LoadedExists
  <1>3. PICK p \in [0 .. N -> Seq(Pairs)] : PairsTrace(text, p) /\ PairsOf(text) = p[N]
    BY PairsExist
  <1>. HIDE DEF d, N
  <1>. DEFINE T == {n \in 0 .. N : DictOf(f[n]) = Map!WithAll(d, p[n])}
  <1>4. 0 \in T
    <2>1. f[0] = cs /\ p[0] = << >>
      BY <1>2, <1>3, Zenon DEF LoadTrace, PairsTrace
    <2>2. 0 \in 0 .. N /\ Map!WithAll(d, << >>) = d
      BY <1>1, WithNone
    <2>. QED
      BY <2>1, <2>2 DEF d
  <1>5. ASSUME NEW n \in 1 .. N, n - 1 \in T PROVE n \in T
    <2>1. /\ f[n] = Parsed(f[n - 1], text[n])
          /\ p[n] = IF text[n] = Junk THEN p[n - 1] ELSE Append(p[n - 1], text[n])
      BY <1>2, <1>3, Zenon DEF LoadTrace, PairsTrace, N
    <2>2. /\ n \in 0 .. N /\ f[n - 1] \in GoodChains /\ p[n - 1] \in Seq(Pairs)
          /\ text[n] \in Lines /\ DictOf(f[n - 1]) = Map!WithAll(d, p[n - 1])
      BY <1>1, <1>2, <1>3, <1>5
    <2>3. CASE text[n] = Junk
      <3>1. f[n] = f[n - 1] /\ p[n] = p[n - 1]
        BY <2>1, <2>2, <2>3, ParsedIs
      <3>. QED
        BY <2>2, <3>1
    <2>4. CASE text[n] # Junk
      <3>1. text[n] \in Pairs
        BY <2>2, <2>4 DEF Lines
      <3>2. DictOf(f[n]) = Map!With(DictOf(f[n - 1]), text[n])
        BY <2>1, <2>2, <2>4, ParsedIs
      <3>3. Map!WithAll(d, p[n]) = Map!With(Map!WithAll(d, p[n - 1]), text[n])
        BY <1>1, <2>1, <2>2, <2>4, <3>1, WithOneMore
      <3>. QED
        BY <2>2, <3>2, <3>3
    <2>. QED
      BY <2>3, <2>4
  <1>6. N \in T
    <2>1. N \in 0 .. N
      BY <1>1
    <2>. HIDE DEF T
    <2>. QED
      BY <1>1, <1>4, <1>5, <2>1, UpTheNumbers
  <1>7. f[N] \in GoodChains
    BY <1>1, <1>2
  <1>. QED
    BY <1>2, <1>3, <1>6, <1>7 DEF d

-----------------------------------------------------------------------------
\* What each operation makes of the map.
DictNow == DictOf(chains)

LEMMA NothingIs == NoChains \in GoodChains /\ DictOf(NoChains) = [k \in Keys |-> NoSetting]
  <1>. DEFINE e == << >>
  <1>1. e \in Seq(Pairs) /\ Len(e) = 0 /\ NoChains = [b \in 1 .. Buckets |-> e]
    BY DEF NoChains
  <1>. HIDE DEF e
  <1>2. NoChains \in GoodChains
    BY <1>1 DEF GoodChains, AllChains, PlacedIn
  <1>3. ASSUME NEW k \in Keys PROVE Get(NoChains, k) = NoSetting
    <2>1. Says(NoChains[BucketOf[k]], k, NoSetting)
      BY <1>1, BucketIs DEF Says
    <2>. QED
      BY <1>2, <2>1, GetIs
  <1>. QED
    BY <1>2, <1>3 DEF DictOf

LEMMA FileIsText == ASSUME ConfigInv PROVE configFile \in Seq(Lines)
  <1>. DEFINE x == configFile   n == Len(configFile)
  <1>1. x \in [1 .. n -> Pairs] /\ n \in Nat
    BY DEF ConfigInv
  <1>. HIDE DEF x, n
  <1>2. x \in [1 .. n -> Lines] /\ n \in Nat
    BY <1>1 DEF Lines
  <1>3. x \in Seq(Lines)
    BY <1>2
  <1>. QED
    BY <1>3 DEF x

LEMMA TextIs == ASSUME NEW text \in Texts PROVE text \in Seq(Lines)
  <1>1. PICK n \in Nat : text \in [1 .. n -> Lines]
    BY ConfigAssumption DEF Texts, Lines
  <1>. QED
    BY <1>1

LEMMA SetIs ==
    ASSUME ConfigInv, NEW node \in Pairs, SetConfig(node)
    PROVE  ConfigInv' /\ Map!SetPair(node)
  <1>1. chains' = Stored(chains, node) /\ configFile' = configFile /\ chains \in GoodChains
    BY DEF SetConfig, ConfigInv
  <1>2. chains' \in GoodChains /\ DictOf(chains') = [DictNow EXCEPT ![node.key] = node.value]
    BY <1>1, StoredIs DEF DictNow
  <1>. QED
    BY <1>1, <1>2 DEF ConfigInv, Map!SetPair, Map!With, DictOf, DictNow

LEMMA RemoveIs ==
    ASSUME ConfigInv, NEW k \in Keys, RemoveConfig(k)
    PROVE  ConfigInv' /\ Map!RemoveKey(k)
  <1>1. /\ chains' = [chains EXCEPT ![BucketOf[k]] = RemoveAt(@, NodeAt(chains, k))]
        /\ configFile' = configFile /\ chains \in GoodChains /\ NodeAt(chains, k) # 0
    BY DEF RemoveConfig, ConfigInv
  <1>2. chains' \in GoodChains /\ DictOf(chains') = [DictNow EXCEPT ![k] = NoSetting]
    BY <1>1, RemovedIs, Zenon DEF DictNow
  <1>. QED
    BY <1>1, <1>2 DEF ConfigInv, Map!RemoveKey, DictOf, DictNow

LEMMA LoadTextIs ==
    ASSUME ConfigInv, NEW text \in Texts, LoadText(text)
    PROVE  ConfigInv' /\ Map!LoadPairs(PairsOf(text))
  <1>1. chains' = Loaded(chains, text) /\ configFile' = configFile /\ chains \in GoodChains
    BY DEF LoadText, ConfigInv
  <1>2. chains' \in GoodChains /\ DictOf(chains') = Map!WithAll(DictNow, PairsOf(text))
    BY <1>1, TextIs, LoadedIs DEF DictNow
  <1>. QED
    BY <1>1, <1>2 DEF ConfigInv, Map!LoadPairs, DictOf, DictNow

LEMMA LoadConfigIs ==
    ASSUME ConfigInv, LoadConfig
    PROVE  ConfigInv' /\ Map!LoadPairs(PairsOf(configFile))
  <1>1. chains' = Loaded(chains, configFile) /\ configFile' = configFile /\ chains \in GoodChains
    BY DEF LoadConfig, ConfigInv
  <1>2. chains' \in GoodChains /\ DictOf(chains') = Map!WithAll(DictNow, PairsOf(configFile))
    BY <1>1, FileIsText, LoadedIs DEF DictNow
  <1>. QED
    BY <1>1, <1>2 DEF ConfigInv, Map!LoadPairs, DictOf, DictNow

LEMMA ClearIs == ASSUME ConfigInv, ClearConfig PROVE ConfigInv' /\ Map!ClearAll
  <1>1. chains' = NoChains /\ configFile' = configFile
    BY DEF ClearConfig
  <1>. QED
    BY <1>1, NothingIs DEF ConfigInv, Map!ClearAll, DictOf

LEMMA SaveIs == ASSUME ConfigInv, SaveConfig PROVE ConfigInv' /\ Map!SavePairs
  <1>1. /\ chains' = chains /\ chains \in [1 .. Buckets -> Seq(Pairs)]
        /\ configFile' = Dump \o SubSeq(configFile, Len(Dump) + 1, Len(configFile))
        /\ configFile \in Seq(Pairs)
    BY DEF SaveConfig, ConfigInv, GoodChains, AllChains
  <1>2. Dump \in Seq(Pairs)
    BY <1>1, ConfigAssumption, FlattenType DEF Dump
  <1>. DEFINE n == Len(Dump)   N == Len(configFile)   rest == SubSeq(configFile, n + 1, N)
  <1>3. n \in Nat /\ N \in Nat /\ \A i \in 1 .. N : configFile[i] \in Pairs
    BY <1>1, <1>2
  <1>. HIDE DEF n, N
  <1>4. rest \in Seq(Pairs)
    <2>1. \A i \in n + 1 .. N : configFile[i] \in Pairs
      BY <1>3
    <2>2. n + 1 \in Int /\ N \in Int
      BY <1>3
    <2>. QED
      BY <2>1, <2>2, SubSeqProperties
  <1>5. configFile' = Cat(Dump, rest)
    BY <1>1, Zenon DEF Cat, n, N
  <1>6. configFile' \in Seq(Pairs)
    BY <1>2, <1>4, <1>5, CatType
  <1>7. Map!SavePairs
    BY <1>1 DEF Map!SavePairs
  <1>. QED
    BY <1>1, <1>6, <1>7 DEF ConfigInv

LEMMA ConfigStepIs == ASSUME ConfigInv, [ConfigNext]_configVars PROVE ConfigInv'
  <1>1. CASE UNCHANGED configVars
    BY <1>1 DEF configVars, ConfigInv
  <1>2. ASSUME NEW node \in Pairs, SetConfig(node) PROVE ConfigInv'
    BY <1>2, SetIs
  <1>3. ASSUME NEW k \in Keys, RemoveConfig(k) PROVE ConfigInv'
    BY <1>3, RemoveIs
  <1>4. ASSUME NEW text \in Texts, LoadText(text) PROVE ConfigInv'
    BY <1>4, LoadTextIs
  <1>. QED
    BY <1>1, <1>2, <1>3, <1>4, ClearIs, LoadConfigIs, SaveIs, Zenon DEF ConfigNext

\* For any keys and values, any number of buckets and any hash, every operation changes what
\* get returns as a map promises (cpp:44-278).
THEOREM ConfigMapped == ConfigSpec => ConfigIsMap
  <1>. DEFINE Promises ==
         /\ \A node \in Pairs : SetConfig(node) => Map!SetPair(node)
         /\ \A k \in Keys : RemoveConfig(k) => Map!RemoveKey(k)
         /\ \A text \in Texts : LoadText(text) => Map!LoadPairs(PairsOf(text))
         /\ LoadConfig => Map!LoadPairs(PairsOf(configFile))
         /\ ClearConfig => Map!ClearAll
         /\ SaveConfig => Map!SavePairs
  <1>1. ConfigInit => ConfigInv /\ Map!DictInit
    BY NothingIs DEF ConfigInit, ConfigInv, Map!DictInit, DictOf
  <1>2. ConfigInv /\ [ConfigNext]_configVars => ConfigInv'
    BY ConfigStepIs
  <1>3. ConfigInv => Promises
    BY SetIs, RemoveIs, LoadTextIs, LoadConfigIs, ClearIs, SaveIs
  <1>4. ConfigInv => [Promises]_configVars
    BY <1>3
  <1>. HIDE DEF Promises
  <1>5. ConfigSpec => Map!DictInit /\ [][Promises]_configVars
    BY <1>1, <1>2, <1>4, PTL DEF ConfigSpec
  <1>. QED
    BY <1>5, Zenon DEF ConfigIsMap, Promises
=============================================================================
