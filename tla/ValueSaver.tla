----------------------------- MODULE ValueSaver -----------------------------
(***************************************************************************)
(* public/namevalue_saver.{h,cpp}: a table of named numbers that save      *)
(* writes to a file and load reads back.  save moves the file aside, writes*)
(* a temporary one, renames it and removes the old file; load prefers the  *)
(* old file where there is one.  The program may crash between any two of  *)
(* these steps and start again.                                            *)
(*                                                                         *)
(* What load reads includes the line save put in front, "[EXPIRATION]", as *)
(* an entry of the table: the next save writes it twice.  Times are        *)
(* reduced to one moment in the future: a time that expires is Soon.       *)
(***************************************************************************)
EXTENDS Integers

CONSTANTS Names, Values,
          Absent,       \* no such entry, no such file
          Torn,         \* the content of a file that is no table that was saved
          MaxSaves,     \* bound: calls of save
          MaxCrashes    \* bound: crashes

Never == 0

Soon == 1

ASSUME SaverAssumption ==
    /\ Absent \notin Values /\ MaxSaves \in Nat /\ MaxCrashes \in Nat

Tables == [Names -> Values \cup {Absent}]

EmptyTable == [n \in Names |-> Absent]

\* A saved file: the expiration given to save, the table, and the expiration that a load
\* had left in the table.
Contents == [given : {Never, Soon}, table : Tables, kept : {Never, Soon, Absent}]

ASSUME FileAssumption == Absent \notin Contents /\ Torn \notin Contents /\ Torn # Absent

VARIABLES table,     \* nv_int_ without its expiration
          kept,      \* nv_int_["[EXPIRATION]"]
          step,      \* the next step of the save or load under way, or "idle"
          given,     \* the argument of the save under way
          file, old, tmp,   \* the three files
          passed,    \* external: the moment Soon has passed
          saved,     \* history: what the last save that returned has saved
          begun,     \* history: what was to be saved by the saves begun since
          unwritten, \* history: the save under way could not open or write the temporary file
          halfCopied,\* history: the file is a copy of the old one that is not whole
          spoilt,    \* history: such a file has taken the place of the last whole one
          saves, crashes

nvVars == <<table, kept>>
diskVars == <<file, old, tmp>>
historyVars == <<saved, begun, unwritten, halfCopied, spoilt>>
countVars == <<saves, crashes>>
saverVars == <<nvVars, step, given, diskVars, passed, historyVars, countVars>>

SaverInit ==
    /\ table = EmptyTable /\ kept = Absent
    /\ step = "idle" /\ given = Never
    /\ file = Absent /\ old = Absent /\ tmp = Absent
    /\ passed = FALSE
    /\ saved = Absent /\ begun = {}
    /\ unwritten = FALSE /\ halfCopied = FALSE /\ spoilt = FALSE
    /\ saves = 0 /\ crashes = 0

SetValue ==
    /\ step = "idle"
    /\ \E n \in Names, v \in Values : table' = [table EXCEPT ![n] = v]
    /\ UNCHANGED <<kept, step, given, diskVars, passed, historyVars, countVars>>

ClearValues ==
    /\ step = "idle"
    /\ table' = EmptyTable /\ kept' = Absent
    /\ UNCHANGED <<step, given, diskVars, passed, historyVars, countVars>>

-----------------------------------------------------------------------------
ToSave(e) == [given |-> e, table |-> table, kept |-> kept]

Saving == ToSave(given)

\* rename(file, old), which fails and leaves old alone when there is no file.
Save(e) ==
    /\ step = "idle"
    /\ saves < MaxSaves
    /\ saves' = saves + 1
    /\ given' = e
    /\ IF file = Absent THEN UNCHANGED <<file, old>> ELSE old' = file /\ file' = Absent
    /\ step' = "create"
    /\ begun' = begun \cup {ToSave(e)}
    /\ unwritten' = FALSE
    /\ halfCopied' = FALSE /\ spoilt' = (spoilt \/ halfCopied)
    /\ UNCHANGED <<nvVars, tmp, passed, saved, crashes>>

\* A fault in the code that the properties must catch: the old file goes first.
SaveCreateRemoves ==
    /\ step = "create"
    /\ tmp' = Torn /\ old' = Absent
    /\ step' = "write"
    /\ UNCHANGED <<nvVars, given, file, passed, historyVars, countVars>>

\* The temporary file is opened; if that fails nothing is written, and save goes on.
SaveCreate ==
    /\ step = "create"
    /\ \/ tmp' = Torn /\ step' = "write" /\ UNCHANGED unwritten
       \/ UNCHANGED tmp /\ step' = "replace" /\ unwritten' = TRUE
    /\ UNCHANGED <<nvVars, given, file, old, passed, saved, begun, halfCopied, spoilt, countVars>>

\* The lines are written one by one; when the disk is full save goes on all the same.
SaveWrite ==
    /\ step = "write"
    /\ \/ tmp' = Saving /\ UNCHANGED unwritten
       \/ UNCHANGED tmp /\ unwritten' = TRUE
    /\ step' = "replace"
    /\ UNCHANGED <<nvVars, given, file, old, passed, saved, begun, halfCopied, spoilt, countVars>>

\* rename(tmp, file), which fails when the temporary file could not be created.
SaveReplace ==
    /\ step = "replace"
    /\ IF tmp = Absent THEN UNCHANGED <<file, tmp>> ELSE file' = tmp /\ tmp' = Absent
    /\ spoilt' = (spoilt \/ unwritten)
    /\ step' = "remove"
    /\ UNCHANGED <<nvVars, given, old, passed, saved, begun, unwritten, halfCopied, countVars>>

SaveRemove ==
    /\ step = "remove"
    /\ old' = Absent
    /\ step' = "idle"
    /\ saved' = Saving /\ begun' = {}
    /\ spoilt' = unwritten /\ unwritten' = FALSE
    /\ UNCHANGED <<nvVars, given, file, tmp, passed, halfCopied, countVars>>

-----------------------------------------------------------------------------
\* Another: the table is not cleared first.
LoadKeepsTable ==
    /\ step = "idle"
    /\ tmp' = Absent
    /\ step' = IF old = Absent THEN "read" ELSE "copy"
    /\ UNCHANGED <<nvVars, given, file, old, passed, historyVars, countVars>>

Load ==
    /\ step = "idle"
    /\ table' = EmptyTable /\ kept' = Absent
    /\ tmp' = Absent
    /\ step' = IF old = Absent THEN "read" ELSE "copy"
    /\ UNCHANGED <<given, file, old, passed, historyVars, countVars>>

\* copy_file starts at an offset it never sets, does not truncate the file it writes to,
\* and creates it with whatever permissions: it copies all, a part, or nothing.
LoadCopy ==
    /\ step = "copy"
    /\ file' \in {old, Torn} \cup {f \in {file} : f # Absent}
    /\ halfCopied' = (file' # old)
    /\ step' = "unlink"
    /\ UNCHANGED <<nvVars, given, old, tmp, passed, saved, begun, unwritten, spoilt, countVars>>

LoadUnlink ==
    /\ step = "unlink"
    /\ old' = Absent
    /\ step' = "read"
    /\ halfCopied' = FALSE /\ spoilt' = (spoilt \/ halfCopied)
    /\ UNCHANGED <<nvVars, given, file, tmp, passed, saved, begun, unwritten, countVars>>

\* Both expirations in the file count, the one kept from an earlier load too.
Expired(c) == passed /\ Soon \in {c.given, c.kept}

\* From a torn file load takes whatever it can read.
LoadRead ==
    /\ step = "read"
    /\ IF file = Torn THEN table' \in Tables /\ kept' \in {Never, Soon, Absent}
       ELSE IF file = Absent \/ Expired(file) THEN UNCHANGED nvVars
       ELSE /\ table' = file.table
            /\ kept' = IF file.kept = Absent THEN file.given ELSE file.kept
    /\ step' = "idle"
    /\ UNCHANGED <<given, diskVars, passed, historyVars, countVars>>

\* The program ends at any point and is started again.
Crash ==
    /\ crashes < MaxCrashes
    /\ crashes' = crashes + 1
    /\ table' = EmptyTable /\ kept' = Absent
    /\ step' = "idle" /\ given' = Never
    /\ unwritten' = FALSE
    /\ UNCHANGED <<diskVars, passed, saved, begun, halfCopied, spoilt, saves>>

TimePasses ==
    /\ ~passed
    /\ passed' = TRUE
    /\ UNCHANGED <<nvVars, step, given, diskVars, historyVars, countVars>>

SaverNext ==
    \/ SetValue \/ ClearValues
    \/ \E e \in {Never, Soon} : Save(e)
    \/ SaveCreate \/ SaveWrite \/ SaveReplace \/ SaveRemove
    \/ Load \/ LoadCopy \/ LoadUnlink \/ LoadRead
    \/ Crash \/ TimePasses

SaverSpec == SaverInit /\ [][SaverNext]_saverVars
-----------------------------------------------------------------------------
\* The file that load believes: the old one where there is one.
Trusted == IF old # Absent THEN old ELSE file

\* At every step of save and of load, and after a crash at any of them, also repeatedly,
\* the file that load would believe is a whole one: that of the last save that returned,
\* or of a save begun since, which a crash has interrupted (cpp:85-108).  It is so unless
\* save failed to open or to write its temporary file, where it removes the last copy all
\* the same (cpp:94-105), or an incomplete copy was taken for the old file (cpp:51-53).
OneCopyWhole == saved # Absent /\ ~spoilt => Trusted \in {saved} \cup begun

\* The table a load should return: none of it once the time given to save has passed.
TableDue(c) == IF c.given = Soon /\ passed THEN EmptyTable ELSE c.table

\* The file has a second expiration, kept in the table from an earlier load, and the one
\* given to save does not stop it from counting.
ExpiresEarly(c) == c.given = Never /\ c.kept = Soon

\* load returns what the last save that returned has saved, or what one begun since would
\* have, or nothing once it has expired, also after crashes in save or load and from the
\* old file (cpp:37-83).  Three faults of the code are left out: the two of OneCopyWhole,
\* and an expiration kept from an earlier load that is written a second time (cpp:65, 99).
LoadsWhatWasSaved ==
    [][step = "read" /\ step' = "idle" /\ crashes' = crashes /\ saved # Absent /\ ~spoilt =>
        \E c \in {saved} \cup begun :
            c = file /\ (ExpiresEarly(c) \/ table' = TableDue(c))]_saverVars

\* load restores what is in the old file it finds (cpp:51: "file&tmp is untrusted").
OldIsRestored ==
    [][step = "unlink" => file = old]_saverVars
=============================================================================
