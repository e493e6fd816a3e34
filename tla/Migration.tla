------------------------------ MODULE Migration ------------------------------
(***************************************************************************)
(* scripts/migrate_simple.py: for each table, SELECT * from Aurora into a  *)
(* CSV file under /tmp, upload it to S3, TRUNCATE the table on Redshift    *)
(* and COPY the object into it. It is started by hand and may end at any   *)
(* statement; a call whose answer is lost has taken effect. Nothing keeps  *)
(* two runs apart: the file, the second in the object's name and the table *)
(* are common to them.                                                     *)
(*                                                                         *)
(* Rows are abstracted to the version of Aurora they were read in.         *)
(***************************************************************************)
EXTENDS Integers, Sequences

CONSTANTS Run,          \* invocations that can be under way together
          TableCount,   \* length of TABLES: 1, "can be extended"
          MaxVersion,   \* bound: versions Aurora goes through
          MaxSecond,    \* bound: seconds int(time.time()) tells apart
          MaxStarts,    \* bound: how often the script is started
          Torn,         \* the content of a file that is no complete dump
          Absent        \* no such file or object

TABLES  == 1 .. TableCount
Version == 1 .. MaxVersion
Second  == 1 .. MaxSecond
Content == Version \union {Torn}

ASSUME MigrationAssumption ==
    /\ TableCount \in Nat \ {0}
    /\ MaxVersion \in Nat \ {0}
    /\ MaxSecond \in Nat \ {0}
    /\ MaxStarts \in Nat

VARIABLES starts,   \* how often the script has been started
          aurora,   \* the current version of the data in Aurora
          now,      \* the clock
          file,     \* table -> content of /tmp/{table}.csv
          bucket,   \* table, second -> the object migrate/{table}/{second}.csv
          table,    \* table on Redshift -> what was loaded since its TRUNCATE
          pc,       \* run -> the statement it is at
          idx,      \* run -> position of its table in TABLES
          view,     \* run -> the version its transaction on Aurora reads, or 0
          key,      \* run -> the second in its object's name
          mixed,    \* runs whose file another one opened while they wrote it
          crossed   \* runs under way that other runs overlapped (history)

stores == <<file, bucket, table>>
locals == <<idx, view, key>>
vars == <<starts, aurora, now, stores, pc, locals, mixed, crossed>>

Stage == {"off", "select", "open", "write", "upload", "truncate", "copy", "count"}

Init ==
    /\ starts = 0
    /\ aurora = 1
    /\ now = 1
    /\ file = [t \in TABLES |-> Absent]
    /\ bucket = [o \in TABLES \X Second |-> Absent]
    /\ table = [t \in TABLES |-> <<>>]
    /\ pc = [r \in Run |-> "off"]
    /\ idx = [r \in Run |-> 1]
    /\ view = [r \in Run |-> 0]
    /\ key = [r \in Run |-> 1]
    /\ mixed = {}
    /\ crossed = {}

Go(r, stage) == pc' = [pc EXCEPT ![r] = stage]

\* The run ends, its connections are closed and its locals are gone.
End(r) ==
    /\ Go(r, "off")
    /\ idx' = [idx EXCEPT ![r] = 1]
    /\ view' = [view EXCEPT ![r] = 0]
    /\ key' = [key EXCEPT ![r] = 1]
    /\ mixed' = mixed \ {r}
    /\ crossed' = crossed \ {r}

Active == {r \in Run : pc[r] # "off"}

-----------------------------------------------------------------------------
(* The statements of main *)

\* An operator starts the script, perhaps while another run is under way.
Start(r) ==
    /\ pc[r] = "off"
    /\ starts < MaxStarts
    /\ starts' = starts + 1
    /\ crossed' = IF Active = {} THEN crossed
                                 ELSE crossed \union Active \union {r}
    /\ Go(r, "select")
    /\ UNCHANGED <<aurora, now, stores, locals, mixed>>

\* SELECT * on the one connection. Its first statement fixes the snapshot
\* that the rest of the transaction (REPEATABLE READ, never ended) reads.
Select(r) ==
    /\ pc[r] = "select"
    /\ view' = [view EXCEPT ![r] = IF @ = 0 THEN aurora ELSE @]
    /\ Go(r, "open")
    /\ UNCHANGED <<starts, aurora, now, stores, idx, key, mixed, crossed>>

\* open("w") empties the file, and another run may have it open, too.
Open(r) ==
    /\ pc[r] = "open"
    /\ file' = [file EXCEPT ![idx[r]] = Torn]
    /\ LET writers == {o \in Run : pc[o] = "write" /\ idx[o] = idx[r]}
       IN  mixed' = IF writers = {} THEN mixed
                                    ELSE mixed \union writers \union {r}
    /\ Go(r, "write")
    /\ UNCHANGED <<starts, aurora, now, bucket, table, locals, crossed>>

\* The rows are written. What two writers leave need not be either's dump.
Close(r) ==
    /\ pc[r] = "write"
    /\ \E c \in {view[r]} \union (IF r \in mixed THEN {Torn} ELSE {}) :
        file' = [file EXCEPT ![idx[r]] = c]
    /\ mixed' = mixed \ {r}
    /\ Go(r, "upload")
    /\ UNCHANGED <<starts, aurora, now, bucket, table, locals, crossed>>

\* Wrong on purpose: an object that exists is taken for this run's upload.
UploadOnce(r) ==
    /\ pc[r] = "upload"
    /\ key' = [key EXCEPT ![r] = now]
    /\ bucket' = IF bucket[<<idx[r], now>>] = Absent
                 THEN [bucket EXCEPT ![<<idx[r], now>>] = file[idx[r]]]
                 ELSE bucket
    /\ Go(r, "truncate")
    /\ UNCHANGED <<starts, aurora, now, file, table, idx, view, mixed, crossed>>

\* The file, as it is now, becomes an object named after the second. The clock
\* is read a moment before the upload; that only this run sees.
Upload(r) ==
    /\ pc[r] = "upload"
    /\ key' = [key EXCEPT ![r] = now]
    /\ bucket' = [bucket EXCEPT ![<<idx[r], now>>] = file[idx[r]]]
    /\ Go(r, "truncate")
    /\ UNCHANGED <<starts, aurora, now, file, table, idx, view, mixed, crossed>>

\* Wrong on purpose: the COPY adds to what is there.
TruncateNothing(r) ==
    /\ pc[r] = "truncate"
    /\ Go(r, "copy")
    /\ UNCHANGED <<starts, aurora, now, stores, locals, mixed, crossed>>

\* TRUNCATE, which Redshift commits at once.
Truncate(r) ==
    /\ pc[r] = "truncate"
    /\ table' = [table EXCEPT ![idx[r]] = <<>>]
    /\ Go(r, "copy")
    /\ UNCHANGED <<starts, aurora, now, file, bucket, locals, mixed, crossed>>

\* COPY adds the object's rows to the table; commit.
Copy(r) ==
    /\ pc[r] = "copy"
    /\ table' = [table EXCEPT ![idx[r]] = Append(@, bucket[<<idx[r], key[r]>>])]
    /\ Go(r, "count")
    /\ UNCHANGED <<starts, aurora, now, file, bucket, locals, mixed, crossed>>

\* Wrong on purpose: one table too many.
CountOneMore(r) ==
    /\ pc[r] = "count"
    /\ IF idx[r] <= TableCount
       THEN /\ Go(r, "select")
            /\ idx' = [idx EXCEPT ![r] = @ + 1]
            /\ UNCHANGED <<view, key, mixed, crossed>>
       ELSE End(r)
    /\ UNCHANGED <<starts, aurora, now, stores>>

\* SELECT COUNT(*), only to be printed; the next table, or the end.
Count(r) ==
    /\ pc[r] = "count"
    /\ IF idx[r] < TableCount
       THEN /\ Go(r, "select")
            /\ idx' = [idx EXCEPT ![r] = @ + 1]
            /\ UNCHANGED <<view, key, mixed, crossed>>
       ELSE End(r)
    /\ UNCHANGED <<starts, aurora, now, stores>>

\* A statement raises an exception, or the process is killed. What was
\* written and committed stays.
Fail(r) ==
    /\ pc[r] # "off"
    /\ End(r)
    /\ UNCHANGED <<starts, aurora, now, stores>>

Migrate(r) ==
    \/ Start(r) \/ Select(r) \/ Open(r) \/ Close(r) \/ Upload(r)
    \/ Truncate(r) \/ Copy(r) \/ Count(r) \/ Fail(r)

\* Aurora stays in use.
Write ==
    /\ aurora < MaxVersion
    /\ aurora' = aurora + 1
    /\ UNCHANGED <<starts, now, stores, pc, locals, mixed, crossed>>

Tick ==
    /\ now < MaxSecond
    /\ now' = now + 1
    /\ UNCHANGED <<starts, aurora, stores, pc, locals, mixed, crossed>>

Next == Write \/ Tick \/ \E r \in Run : Migrate(r)

Spec == Init /\ [][Next]_vars

-----------------------------------------------------------------------------
(* What a migration promises *)

\* The value of every variable has its type.
TypeOK ==
    /\ starts \in 0 .. MaxStarts
    /\ aurora \in Version
    /\ now \in Second
    /\ file \in [TABLES -> Content \union {Absent}]
    /\ bucket \in [TABLES \X Second -> Content \union {Absent}]
    /\ table \in [TABLES -> Seq(Content \union {Absent})]
    /\ pc \in [Run -> Stage]
    /\ idx \in [Run -> TABLES]
    /\ view \in [Run -> Version \union {0}]
    /\ key \in [Run -> Second]
    /\ mixed \subseteq Run
    /\ crossed \subseteq Run

\* Tables the run has copied.
Done(r) == {t \in TABLES : t < idx[r] \/ (t = idx[r] /\ pc[r] = "count")}

\* A run that no other one overlapped overwrites: each table it is through
\* with holds one load, and all of them come from one state of Aurora,
\* whatever earlier runs left behind when they failed (a torn file, an
\* object of the same second, an empty table, a COPY whose answer was lost).
LoneRunOverwrites ==
    \A r \in Active \ crossed : \A t \in Done(r) : table[t] = <<view[r]>>

\* A run that no other one overlapped empties a table only while a complete
\* dump of it lies under the name its COPY will read.
EmptiedIsBackedUp ==
    \A r \in Active \ crossed :
        pc[r] \in {"truncate", "copy"} => bucket[<<idx[r], key[r]>>] = view[r]
=============================================================================
