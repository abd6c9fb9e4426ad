------------------------------- MODULE StartUp -------------------------------
(***************************************************************************)
(* The start of the worker: redis.conf is read line by line                *)
(* (configure_proxy.c), the tables of the databases it asks for are        *)
(* created (init_table, create_table in work_with_db.c), and the loop      *)
(* begins (proxy_start_work in redis_proxy.c). The worker may end at any   *)
(* step; the postmaster starts it again, and finds what is in PostgreSQL.  *)
(*                                                                         *)
(* A line is its name and the words of its value. tcp-backlog, bind,       *)
(* logfile and daemonize are read and change nothing modelled here: they   *)
(* are the name "other", like the names the code does not know.            *)
(***************************************************************************)
EXTENDS Integers, Sequences

CONSTANTS
  Files,         \* the contents redis.conf may have: sequences of lines, or NoFile
  NoFile,
  Garbage,       \* values that the stack may hold when init_configuration begins
  MAX_TABLES,    \* bound: no file asks for more databases
  DEFAULT_DATABASES,  \* 16 in the code
  SAVE_SLOTS,    \* pairs that save_data has room for: 16 in the code
  MAX_FAILURES   \* bound: starts that fail for a reason outside the worker

Tables == 0 .. MAX_TABLES - 1  \* n stands for redis_n

Number(n) == <<"number", n>>
Text(s) == <<"text", s>>
IsNumber(word) == word[1] = "number"

Line(name, value) == [name |-> name, value |-> value]

\* What a first line without a name does is decided by fscanf and sscanf.
BlankLine == Line("BLANK", <<>>)
SpacesLine == Line("SPACES", <<>>)

Word == ({"number"} \X Nat) \cup ({"text"} \X STRING)
FileLine == [name : STRING, value : Seq(Word)]

Words(value) == {value[i] : i \in DOMAIN value}
Asked == UNION {Words(value) : value \in
  Garbage \cup UNION {{f[i].value : i \in DOMAIN f} : f \in Files \ {NoFile}}}

ASSUME StartUpAssumption ==
  /\ NoFile \in Files
  /\ Files \ {NoFile} \subseteq Seq(FileLine)
  /\ Garbage \subseteq Seq(Word)
  /\ {MAX_TABLES, DEFAULT_DATABASES, SAVE_SLOTS, MAX_FAILURES} \subseteq Nat
  /\ DEFAULT_DATABASES <= MAX_TABLES
  /\ \A word \in Asked : IsNumber(word) => word[2] \in 0 .. MAX_TABLES

VARIABLES
  file,             \* redis.conf
  pc,               \* where the worker is
  opened,           \* the file as it was when it was opened
  line,             \* the number of the next line
  parameter_value,  \* as the last line with a value, and strtok, have left it
  config,
  known,            \* the table names of get_table_name
  table,            \* the loop variable of init_table
  exists,           \* the tables that PostgreSQL has
  rows,             \* and how many rows each has
  failures,         \* failures so far, for MAX_FAILURES
  torn              \* history: tables whose creation was cut short

confVars == <<opened, line, parameter_value, config>>
tableVars == <<known, table>>
dbVars == <<exists, rows, torn>>
vars == <<file, pc, confVars, tableVars, dbVars, failures>>

Regimes == {"NO_CACHE", "GET_CACHE", "ONLY_CACHE", "DEFFER_DUMP"}
DEFAULT_CONFIG == [db_count |-> DEFAULT_DATABASES, caching_regime |-> "NO_CACHE"]

TypeOK ==
  /\ file \in Files
  /\ opened \in Files \cup {<<>>}
  /\ pc \in {"down", "reading", "spinning", "tables", "inserting", "serving"}
  /\ line \in Nat
  /\ config \in [db_count : Nat, caching_regime : Regimes]
  /\ known \subseteq Tables
  /\ table \in Nat
  /\ exists \subseteq Tables
  /\ rows \in [Tables -> Nat]
  /\ torn \subseteq Tables
  /\ failures \in 0 .. MAX_FAILURES

-----------------------------------------------------------------------------
(***************************************************************************)
(* The end of the worker.                                                  *)
(***************************************************************************)

\* ereport(ERROR), or a signal. What is in memory is set afresh by the next start.
Exit ==
  /\ pc' = "down"
  /\ opened' = <<>>
  /\ line' = 1
  /\ parameter_value' = <<>>
  /\ config' = DEFAULT_CONFIG
  /\ known' = {}
  /\ table' = 0

\* Faulty forms: one table more than there are databases; the names of the
\* tables are never found equal.
MoreTables_late == table <= config.db_count
check_table_existence_never == FALSE

MoreTables == table < config.db_count
check_table_existence == table \in known

MissingTable ==
  /\ pc = "tables"
  /\ MoreTables
  /\ ~check_table_existence

\* PostgreSQL refuses a connection or a statement, the connection breaks, the
\* server is stopped, a system call fails. What was sent may have been done.
Fails ==
  /\ pc \notin {"down", "serving"}
  /\ failures < MAX_FAILURES
  /\ failures' = failures + 1
  /\ Exit
  /\ UNCHANGED file
  /\ \/ /\ UNCHANGED <<exists, rows>>
        /\ torn' = IF pc = "inserting" THEN torn \cup {table} ELSE torn
     \/ /\ pc = "inserting"
        /\ rows' = [rows EXCEPT ![table] = @ + 1]
        /\ UNCHANGED <<exists, torn>>
     \/ /\ MissingTable
        /\ table \notin exists
        /\ exists' = exists \cup {table}
        /\ torn' = torn \cup {table}
        /\ UNCHANGED rows

\* SIGTERM is blocked until the loop begins.
Terminate ==
  /\ pc = "serving"
  /\ Exit
  /\ UNCHANGED <<file, dbVars, failures>>

\* The user edits redis.conf.
Edit ==
  /\ file' \in Files \ {file}
  /\ UNCHANGED <<pc, confVars, tableVars, dbVars, failures>>

-----------------------------------------------------------------------------
(***************************************************************************)
(* init_configuration.                                                     *)
(***************************************************************************)

FirstLineIs(l) == file \notin {NoFile, <<>>} /\ Head(file) = l

\* The file is small enough to be read at once when it is opened. On a blank
\* first line fscanf neither matches nor moves on; a first line of spaces makes
\* sscanf report the end of its input.
proxy_start_work ==
  /\ pc = "down"
  /\ \/ /\ file # NoFile
        /\ ~FirstLineIs(SpacesLine)
        /\ pc' = IF FirstLineIs(BlankLine) THEN "spinning" ELSE "reading"
        /\ opened' = file
        /\ line' = 1
        /\ parameter_value' \in Garbage
        /\ config' = DEFAULT_CONFIG
        /\ UNCHANGED tableVars
     \/ /\ file = NoFile \/ FirstLineIs(SpacesLine)
        /\ Exit
  /\ UNCHANGED <<file, dbVars, failures>>

\* sscanf leaves parameter_value alone on a line that has none.
Value(l) == IF l.value = <<>> THEN parameter_value ELSE l.value

\* One word, and that a number.
parse_int_from_value_correctly(value) == Len(value) = 1 /\ IsNumber(value[1])

\* Faulty form: a value that is no number sets the field all the same.
Databases_unchecked(value, c) ==
  [c EXCEPT !.db_count = IF parse_int_from_value_correctly(value) THEN value[1][2] ELSE 0]

\* A value that is no number leaves the field as it was.
Databases(value, c) ==
  IF parse_int_from_value_correctly(value) THEN [c EXCEPT !.db_count = value[1][2]] ELSE c

RegimeNamed == [text \in {"no-cache", "get-cache", "only-cache", "deffer-dump"} |->
  CASE text = "no-cache"    -> "NO_CACHE"
    [] text = "get-cache"   -> "GET_CACHE"
    [] text = "only-cache"  -> "ONLY_CACHE"
    [] text = "deffer-dump" -> "DEFFER_DUMP"]

IsRegime(value) == Len(value) = 1 /\ ~IsNumber(value[1]) /\ value[1][2] \in DOMAIN RegimeNamed

CacheRegime(value, c) ==
  IF IsRegime(value) THEN [c EXCEPT !.caching_regime = RegimeNamed[value[1][2]]] ELSE c

\* What a line of the file means. The pairs of a save line go to save_data, which
\* nothing reads.
ParsedLine(l, c) ==
  CASE l.name = "databases"    -> Databases(Value(l), c)
    [] l.name = "cache-regime" -> CacheRegime(Value(l), c)
    [] OTHER                   -> c

\* The words of a save line are numbers; at another one the loop repeats itself.
SaveLineEnds(value) == \A i \in DOMAIN value : IsNumber(value[i])
SaveLineFits(value) == Len(value) \div 2 <= SAVE_SLOTS

\* strtok cuts the value at its first blank.
FirstWord(value) == IF value = <<>> THEN <<>> ELSE <<Head(value)>>

ReadLine ==
  /\ pc = "reading"
  /\ line <= Len(opened)
  /\ LET l == opened[line]
         value == Value(l)
         saves == l.name = "save"
     IN
     /\ \/ /\ saves => SaveLineEnds(value)
           /\ config' = ParsedLine(l, config)
           /\ line' = line + 1
           /\ parameter_value' =
                IF l.name = "#" THEN parameter_value
                ELSE IF saves THEN FirstWord(value) ELSE value
           /\ UNCHANGED <<pc, opened, tableVars>>
        \/ /\ saves /\ ~SaveLineEnds(value)
           /\ pc' = "spinning"
           /\ UNCHANGED <<confVars, tableVars>>
        \* Pairs are written behind the array.
        \/ /\ saves /\ ~SaveLineFits(value)
           /\ Exit
  /\ UNCHANGED <<file, dbVars, failures>>

-----------------------------------------------------------------------------
(***************************************************************************)
(* init_table, and what follows it.                                        *)
(***************************************************************************)

\* Faulty form: the loop begins with the table behind redis_0.
init_table_from_one ==
  /\ pc = "reading"
  /\ line > Len(opened)
  /\ pc' = "tables"
  /\ table' = 1
  /\ known' = exists
  /\ UNCHANGED <<file, confVars, dbVars, failures>>

\* The end of the file; get_table_name is called once, before the loop.
init_table ==
  /\ pc = "reading"
  /\ line > Len(opened)
  /\ pc' = "tables"
  /\ table' = 0
  /\ known' = exists
  /\ UNCHANGED <<file, confVars, dbVars, failures>>

\* Faulty form: a table that is there is given a row, in case it has none.
ExistingTable_inserts ==
  /\ pc = "tables"
  /\ MoreTables
  /\ check_table_existence
  /\ pc' = "inserting"
  /\ UNCHANGED <<file, confVars, tableVars, dbVars, failures>>

ExistingTable ==
  /\ pc = "tables"
  /\ MoreTables
  /\ check_table_existence
  /\ table' = table + 1
  /\ UNCHANGED <<file, pc, confVars, known, dbVars, failures>>

\* CREATE TABLE, which fails if the table is there.
create_table ==
  /\ MissingTable
  /\ IF table \in exists
       THEN Exit /\ UNCHANGED <<exists, rows>>
       ELSE /\ pc' = "inserting"
            /\ exists' = exists \cup {table}
            /\ UNCHANGED <<confVars, tableVars, rows>>
  /\ UNCHANGED <<file, torn, failures>>

\* The second statement of create_table.
InsertRow ==
  /\ pc = "inserting"
  /\ pc' = "tables"
  /\ rows' = [rows EXCEPT ![table] = @ + 1]
  /\ table' = table + 1
  /\ UNCHANGED <<file, confVars, known, exists, torn, failures>>

\* The second connection, the listening socket, the timer.
StartLoop ==
  /\ pc = "tables"
  /\ ~MoreTables
  /\ pc' = "serving"
  /\ UNCHANGED <<file, confVars, tableVars, dbVars, failures>>

-----------------------------------------------------------------------------

Init ==
  /\ file \in Files
  /\ opened = <<>>
  /\ pc = "down"
  /\ line = 1
  /\ parameter_value = <<>>
  /\ config = DEFAULT_CONFIG
  /\ known = {}
  /\ table = 0
  /\ exists = {}
  /\ rows = [i \in Tables |-> 0]
  /\ failures = 0
  /\ torn = {}

\* What the worker and the postmaster do by themselves.
Step ==
  \/ proxy_start_work \/ ReadLine
  \/ init_table \/ ExistingTable \/ create_table \/ InsertRow \/ StartLoop

Next == Step \/ Fails \/ Terminate \/ Edit

Spec == Init /\ [][Next]_vars

\* Nothing makes the worker wait; what fails stops failing (MAX_FAILURES).
FairSpec == Spec /\ WF_vars(Step)

-----------------------------------------------------------------------------
(***************************************************************************)
(* Properties.                                                             *)
(***************************************************************************)

Configured == pc \in {"tables", "inserting", "serving"}

Lines(name) == {i \in DOMAIN opened : opened[i].name = name}
HasValues(name) == \A i \in Lines(name) : opened[i].value # <<>>

\* The last of some lines decides; without one the default stays.
Decides(lines, i) == i \in lines /\ \A j \in lines : j <= i

\* The configuration is the one redis.conf asks for: for each field the last line
\* that has a proper value for it, else the default, whatever other lines are
\* between. Lines without a value can only harm the field they name.
ConfigIsOfTheFile ==
  Configured =>
    LET sizes == {i \in Lines("databases") : parse_int_from_value_correctly(opened[i].value)}
        regimes == {i \in Lines("cache-regime") : IsRegime(opened[i].value)}
    IN
    /\ HasValues("databases") =>
         \/ sizes = {} /\ config.db_count = DEFAULT_DATABASES
         \/ \E i \in sizes : Decides(sizes, i) /\ config.db_count = opened[i].value[1][2]
    /\ HasValues("cache-regime") =>
         \/ regimes = {} /\ config.caching_regime = "NO_CACHE"
         \/ \E i \in regimes :
              Decides(regimes, i) /\ config.caching_regime = RegimeNamed[opened[i].value[1][2]]

\* Over all failures and restarts a table has one row, from its creation on,
\* unless its creation was cut short; it never gets a second one, which would
\* double every value (init_table, create_table).
OneRowPerTable ==
  \A i \in Tables :
    rows[i] = IF i \in exists \ torn /\ ~(pc = "inserting" /\ i = table) THEN 1 ELSE 0

\* When the loop begins, every database that the configuration asks for has its
\* table, however many starts it took (configure_proxy.c:73-74).
ServingTablesExist ==
  pc = "serving" => \A i \in 0 .. config.db_count - 1 : i \in exists

\* And each of them has the row that holds the hstore (work_with_db.c:379,
\* "putting hstore into it").
ServingTablesHaveRows ==
  pc = "serving" => \A i \in 0 .. config.db_count - 1 : rows[i] > 0

\* A file that the worker can read to its end: it is there, its first line has a
\* name, and its save lines have nothing but numbers, few enough.
Readable(f) ==
  /\ f # NoFile
  /\ f # <<>> => Head(f) \notin {BlankLine, SpacesLine}
  /\ \A i \in DOMAIN f : f[i].name = "save" =>
       f[i].value # <<>> /\ SaveLineEnds(f[i].value) /\ SaveLineFits(f[i].value)

\* With a readable file the worker gets to serve, whatever an interrupted start
\* has left behind.
EventuallyServing ==
  \A f \in Files : Readable(f) =>
    (pc = "down" /\ file = f ~> pc = "serving" \/ file # f)
=============================================================================
