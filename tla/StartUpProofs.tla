---------------------------- MODULE StartUpProofs ----------------------------
(***************************************************************************)
(* Proofs about the start of the worker, for every set of files, every     *)
(* content of the stack, and every number of databases and failures.       *)
(***************************************************************************)
EXTENDS StartUp, TLAPS

-----------------------------------------------------------------------------
(***************************************************************************)
(* The words of a file, and what a line makes of the configuration.        *)
(***************************************************************************)

\* A value that was read from a file or from the stack.
AskedValue(value) == value \in Seq(Word) /\ Words(value) \subseteq Asked

LEMMA OpenedLines ==
  ASSUME NEW f \in Files \ {NoFile}, NEW i \in DOMAIN f
  PROVE  /\ f \in Seq(FileLine)
         /\ f[i] \in FileLine
         /\ AskedValue(f[i].value)
<1>1. f \in Seq(FileLine) /\ f[i] \in FileLine
  BY StartUpAssumption
<1>2. f[i].value \in Seq(Word)
  BY <1>1 DEF FileLine
<1>3. f[i].value \in Garbage \cup UNION {{g[j].value : j \in DOMAIN g} : g \in Files \ {NoFile}}
  OBVIOUS
<1>4. Words(f[i].value) \subseteq Asked
  BY <1>3 DEF Asked
<1> QED
  BY <1>1, <1>2, <1>4 DEF AskedValue

LEMMA GarbageIsAsked ==
  ASSUME NEW value \in Garbage
  PROVE  AskedValue(value)
<1>1. value \in Garbage \cup UNION {{g[j].value : j \in DOMAIN g} : g \in Files \ {NoFile}}
  OBVIOUS
<1>2. Words(value) \subseteq Asked
  BY <1>1 DEF Asked
<1> QED
  BY <1>2, StartUpAssumption DEF AskedValue

Configs == [db_count : 0 .. MAX_TABLES, caching_regime : Regimes]

\* No line asks for more than MAX_TABLES databases, or for an unknown regime
\* (parse_int_from_value_correctly, the comparison with the four names).
LEMMA ParsedLineType ==
  ASSUME NEW l \in FileLine, AskedValue(Value(l)), NEW c \in Configs
  PROVE  ParsedLine(l, c) \in Configs
<1>1. Databases(Value(l), c) \in Configs
  <2>1. CASE parse_int_from_value_correctly(Value(l))
    <3>1. /\ Value(l)[1] \in Asked
          /\ IsNumber(Value(l)[1])
      BY <2>1 DEF parse_int_from_value_correctly, AskedValue, Words
    <3>2. Value(l)[1][2] \in 0 .. MAX_TABLES
      BY <3>1, StartUpAssumption
    <3> QED
      BY <2>1, <3>2 DEF Databases, Configs
  <2>2. CASE ~parse_int_from_value_correctly(Value(l))
    BY <2>2 DEF Databases
  <2> QED
    BY <2>1, <2>2
<1>2. CacheRegime(Value(l), c) \in Configs
  <2>1. CASE IsRegime(Value(l))
    <3>1. RegimeNamed[Value(l)[1][2]] \in Regimes
      BY <2>1 DEF IsRegime, RegimeNamed, Regimes
    <3> QED
      BY <2>1, <3>1 DEF CacheRegime, Configs
  <2>2. CASE ~IsRegime(Value(l))
    BY <2>2 DEF CacheRegime
  <2> QED
    BY <2>1, <2>2
<1> QED
  BY <1>1, <1>2 DEF ParsedLine

-----------------------------------------------------------------------------
(***************************************************************************)
(* The inductive invariant. Of the tables: those before the loop variable  *)
(* exist, what was torn exists, and the one being inserted into is new.    *)
(* Of the configuration: it is what the lines read so far ask for.         *)
(***************************************************************************)

TypeInv ==
  /\ TypeOK
  /\ opened \in Seq(FileLine)
  /\ \A i \in DOMAIN opened : AskedValue(opened[i].value)
  /\ AskedValue(parameter_value)
  /\ config \in Configs
  /\ pc = "reading" => line \in 1 .. Len(opened) + 1

TablesInv ==
  /\ torn \subseteq exists
  /\ known \subseteq exists
  /\ pc \in {"tables", "inserting"} =>
       table <= config.db_count /\ \A i \in 0 .. table - 1 : i \in exists
  /\ pc = "inserting" =>
       table < config.db_count /\ table \in exists \ torn

IInv ==
  /\ TypeInv
  /\ TablesInv
  /\ OneRowPerTable
  /\ ServingTablesExist

LEMMA ExitType ==
  ASSUME TypeInv, Exit, file' \in Files, exists' \subseteq Tables,
         rows' \in [Tables -> Nat], torn' \subseteq Tables,
         failures' \in 0 .. MAX_FAILURES
  PROVE  TypeInv'
<1>1. DEFAULT_CONFIG \in Configs
  BY StartUpAssumption DEF DEFAULT_CONFIG, Configs, Regimes
<1>2. DEFAULT_CONFIG \in [db_count : Nat, caching_regime : Regimes]
  BY StartUpAssumption DEF DEFAULT_CONFIG, Regimes
<1>3. <<>> \in Seq(FileLine) /\ <<>> \in Seq(Word)
  OBVIOUS
<1>4. AskedValue(<<>>)
  BY <1>3 DEF AskedValue, Words
<1> QED
  BY <1>1, <1>2, <1>3, <1>4 DEF TypeInv, TypeOK, Exit

LEMMA InitInvariant == Init => IInv
<1> SUFFICES ASSUME Init PROVE IInv
  OBVIOUS
<1>1. DEFAULT_CONFIG \in Configs /\ DEFAULT_CONFIG \in [db_count : Nat, caching_regime : Regimes]
  BY StartUpAssumption DEF DEFAULT_CONFIG, Configs, Regimes
<1>2. <<>> \in Seq(FileLine) /\ AskedValue(<<>>)
  BY DEF AskedValue, Words
<1>3. TypeInv
  BY <1>1, <1>2, StartUpAssumption DEF Init, TypeInv, TypeOK
<1> QED
  BY <1>3 DEF Init, IInv, TablesInv, OneRowPerTable, ServingTablesExist

LEMMA FailsPreserves ==
  ASSUME IInv, Fails
  PROVE  IInv'
<1> USE DEF IInv
<1>1. /\ Exit
      /\ file' = file
      /\ failures' = failures + 1 /\ failures < MAX_FAILURES
  BY DEF Fails
<1>2. /\ exists \subseteq Tables /\ torn \subseteq Tables
      /\ torn \subseteq exists
      /\ rows \in [Tables -> Nat]
      /\ file \in Files /\ failures \in 0 .. MAX_FAILURES
      /\ pc' = "down" /\ known' = {}
  BY <1>1 DEF TypeInv, TypeOK, TablesInv, Exit
<1>3. failures' \in 0 .. MAX_FAILURES
  BY <1>1, <1>2, StartUpAssumption
<1>4. CASE /\ pc = "inserting"
           /\ UNCHANGED <<exists, rows>>
           /\ torn' = torn \cup {table}
  <2>1. table \in exists \ torn
    BY <1>4 DEF TablesInv
  <2>2. TypeInv'
    BY <1>1, <1>2, <1>3, <1>4, <2>1, ExitType
  <2>3. OneRowPerTable'
    BY <1>2, <1>4, <2>1 DEF OneRowPerTable
  <2> QED
    BY <1>2, <1>4, <2>1, <2>2, <2>3 DEF TablesInv, ServingTablesExist
<1>5. CASE pc # "inserting" /\ UNCHANGED <<exists, rows, torn>>
  <2>1. TypeInv'
    BY <1>1, <1>2, <1>3, <1>5, ExitType
  <2>2. OneRowPerTable'
    BY <1>2, <1>5 DEF OneRowPerTable
  <2> QED
    BY <1>2, <1>5, <2>1, <2>2 DEF TablesInv, ServingTablesExist
<1>6. CASE /\ pc = "inserting"
           /\ rows' = [rows EXCEPT ![table] = @ + 1]
           /\ UNCHANGED <<exists, torn>>
  <2>1. table \in exists \ torn /\ table \in Tables
    BY <1>2, <1>6 DEF TablesInv
  <2>2. rows' \in [Tables -> Nat]
    BY <1>2, <1>6, <2>1
  <2>3. TypeInv'
    BY <1>1, <1>2, <1>3, <1>6, <2>2, ExitType
  <2>4. OneRowPerTable'
    BY <1>2, <1>6, <2>1 DEF OneRowPerTable
  <2> QED
    BY <1>2, <1>6, <2>3, <2>4 DEF TablesInv, ServingTablesExist
<1>7. CASE /\ MissingTable
           /\ table \notin exists
           /\ exists' = exists \cup {table}
           /\ torn' = torn \cup {table}
           /\ UNCHANGED rows
  <2>1. table \in Tables
    BY <1>7, StartUpAssumption DEF MissingTable, MoreTables, TypeInv, TypeOK, Configs, Tables
  <2>2. TypeInv'
    BY <1>1, <1>2, <1>3, <1>7, <2>1, ExitType
  <2>3. OneRowPerTable'
    BY <1>2, <1>7, <2>1 DEF OneRowPerTable, MissingTable
  <2> QED
    BY <1>2, <1>7, <2>2, <2>3 DEF TablesInv, ServingTablesExist
<1> QED
  BY <1>4, <1>5, <1>6, <1>7 DEF Fails

\* The other steps that end in Exit, or that leave PostgreSQL and the tables alone.
LEMMA QuietExitPreserves ==
  ASSUME IInv, pc # "inserting", Exit, UNCHANGED <<dbVars, failures>>, file' \in Files
  PROVE  IInv'
<1>1. TypeInv'
  BY ExitType DEF IInv, TypeInv, TypeOK, dbVars
<1>2. pc' = "down" /\ known' = {} /\ UNCHANGED <<exists, rows, torn>>
  BY DEF Exit, dbVars
<1>3. OneRowPerTable'
  BY <1>2 DEF IInv, OneRowPerTable
<1> QED
  BY <1>1, <1>2, <1>3 DEF IInv, TablesInv, ServingTablesExist

LEMMA StartPreserves ==
  ASSUME IInv, proxy_start_work
  PROVE  IInv'
<1> USE DEF IInv
<1>1. CASE Exit
  <2>1. pc = "down" /\ UNCHANGED <<file, dbVars, failures>>
    BY DEF proxy_start_work
  <2> QED
    BY <1>1, <2>1, QuietExitPreserves DEF TypeInv, TypeOK
<1>2. CASE /\ file # NoFile
           /\ pc' \in {"spinning", "reading"}
           /\ opened' = file
           /\ line' = 1
           /\ parameter_value' \in Garbage
           /\ config' = DEFAULT_CONFIG
           /\ UNCHANGED tableVars
           /\ pc = "down"
           /\ UNCHANGED <<file, dbVars, failures>>
  <2>1. file \in Files \ {NoFile} /\ opened' \in Seq(FileLine)
    BY <1>2, StartUpAssumption DEF TypeInv, TypeOK
  <2>2. \A i \in DOMAIN opened' : AskedValue(opened'[i].value)
    BY <1>2, <2>1, OpenedLines
  <2>3. AskedValue(parameter_value')
    BY <1>2, GarbageIsAsked
  <2>4. config' \in Configs /\ config' \in [db_count : Nat, caching_regime : Regimes]
    BY <1>2, StartUpAssumption DEF DEFAULT_CONFIG, Configs, Regimes
  <2>5. line' \in 1 .. Len(opened') + 1
    BY <1>2, <2>1
  <2>6. TypeInv'
    BY <1>2, <2>1, <2>2, <2>3, <2>4, <2>5 DEF TypeInv, TypeOK, tableVars, dbVars
  <2>7. OneRowPerTable'
    BY <1>2 DEF OneRowPerTable, dbVars, tableVars
  <2> QED
    BY <1>2, <2>6, <2>7 DEF TablesInv, ServingTablesExist, dbVars, tableVars
<1> QED
  BY <1>1, <1>2 DEF proxy_start_work

LEMMA ReadLinePreserves ==
  ASSUME IInv, ReadLine
  PROVE  IInv'
<1> USE DEF IInv
<1> DEFINE l == opened[line]
           value == Value(l)
           saves == l.name = "save"
<1>1. /\ pc = "reading"
      /\ line \in 1 .. Len(opened)
      /\ opened \in Seq(FileLine)
      /\ UNCHANGED <<file, dbVars, failures>>
  BY DEF ReadLine, TypeInv
<1>2. l \in FileLine /\ AskedValue(value) /\ AskedValue(l.value)
  BY <1>1 DEF TypeInv, Value
<1> HIDE DEF l, value, saves
<1>3. CASE /\ config' = ParsedLine(l, config)
           /\ line' = line + 1
           /\ parameter_value' =
                IF l.name = "#" THEN parameter_value
                ELSE IF saves THEN FirstWord(value) ELSE value
           /\ UNCHANGED <<pc, opened, tableVars>>
  <2>1. config' \in Configs
    BY <1>2, <1>3, ParsedLineType DEF value, TypeInv
  <2>2. config' \in [db_count : Nat, caching_regime : Regimes]
    BY <2>1, StartUpAssumption DEF Configs
  <2>3. AskedValue(FirstWord(value))
    <3>1. CASE value = <<>>
      BY <1>2, <3>1 DEF FirstWord
    <3>2. CASE value # <<>>
      <4>1. value \in Seq(Word) /\ Head(value) \in Word /\ Head(value) = value[1] /\ 1 \in DOMAIN value
        BY <1>2, <3>2 DEF AskedValue
      <4>2. /\ <<Head(value)>> \in Seq(Word)
            /\ Words(<<Head(value)>>) = {Head(value)}
        BY <4>1 DEF Words
      <4> QED
        BY <1>2, <3>2, <4>1, <4>2 DEF AskedValue, FirstWord, Words
    <3> QED
      BY <3>1, <3>2
  <2>4. AskedValue(parameter_value')
    BY <1>2, <1>3, <2>3 DEF TypeInv
  <2>5. line' \in 1 .. Len(opened') + 1 /\ line' \in Nat
    BY <1>1, <1>3
  <2>6. TypeInv'
    BY <1>1, <1>3, <2>1, <2>2, <2>4, <2>5 DEF TypeInv, TypeOK, dbVars, tableVars
  <2>7. OneRowPerTable'
    BY <1>1, <1>3 DEF OneRowPerTable, dbVars, tableVars
  <2> QED
    BY <1>1, <1>3, <2>6, <2>7 DEF TablesInv, ServingTablesExist, dbVars, tableVars
<1>4. CASE pc' = "spinning" /\ UNCHANGED <<confVars, tableVars>>
  <2>1. TypeInv'
    BY <1>1, <1>4 DEF TypeInv, TypeOK, confVars, dbVars, tableVars
  <2>2. OneRowPerTable'
    BY <1>1, <1>4 DEF OneRowPerTable, dbVars, tableVars
  <2> QED
    BY <1>1, <1>4, <2>1, <2>2 DEF TablesInv, ServingTablesExist, dbVars, tableVars
<1>5. CASE Exit
  BY <1>1, <1>5, QuietExitPreserves DEF TypeInv, TypeOK
<1> QED
  BY <1>3, <1>4, <1>5 DEF ReadLine, l, value, saves

\* init_table, the steps of its loop, and the loop of the worker.
LEMMA TablesPreserve ==
  ASSUME IInv, init_table \/ ExistingTable \/ create_table \/ InsertRow \/ StartLoop
  PROVE  IInv'
<1> USE DEF IInv
<1>1. /\ exists \subseteq Tables /\ torn \subseteq exists
      /\ rows \in [Tables -> Nat]
      /\ table \in Nat /\ config.db_count \in 0 .. MAX_TABLES
      /\ MAX_TABLES \in Nat
  BY StartUpAssumption DEF TypeInv, TypeOK, TablesInv, Configs
<1>2. CASE init_table
  <2>1. /\ pc = "reading" /\ pc' = "tables" /\ table' = 0 /\ known' = exists
        /\ UNCHANGED <<file, opened, line, parameter_value, config, exists, rows, torn, failures>>
    BY <1>2 DEF init_table, confVars, dbVars
  <2>2. TypeInv'
    BY <1>1, <2>1 DEF TypeInv, TypeOK
  <2>3. OneRowPerTable'
    BY <2>1 DEF OneRowPerTable
  <2> QED
    BY <1>1, <2>1, <2>2, <2>3 DEF TablesInv, ServingTablesExist
<1>3. CASE ExistingTable
  <2>1. /\ pc = "tables" /\ pc' = "tables" /\ table' = table + 1
        /\ table < config.db_count /\ table \in known
        /\ UNCHANGED <<file, opened, line, parameter_value, config, known, exists, rows, torn, failures>>
    BY <1>3 DEF ExistingTable, MoreTables, check_table_existence, confVars, dbVars
  <2>2. TypeInv'
    BY <1>1, <2>1 DEF TypeInv, TypeOK
  <2>3. OneRowPerTable'
    BY <2>1 DEF OneRowPerTable
  <2>4. table \in exists /\ \A i \in 0 .. table - 1 : i \in exists
    BY <2>1 DEF TablesInv
  <2>5. \A i \in 0 .. table' - 1 : i \in exists
    BY <1>1, <2>1, <2>4
  <2> QED
    BY <1>1, <2>1, <2>2, <2>3, <2>5 DEF TablesInv, ServingTablesExist
<1>4. CASE create_table
  <2>1. CASE table \in exists
    BY <1>4, <2>1, QuietExitPreserves DEF create_table, MissingTable, TypeInv, TypeOK, dbVars
  <2>2. CASE table \notin exists
    <3>1. /\ pc = "tables" /\ pc' = "inserting"
          /\ table < config.db_count
          /\ exists' = exists \cup {table}
          /\ UNCHANGED <<file, opened, line, parameter_value, config, known, table, rows, torn, failures>>
      BY <1>4, <2>2 DEF create_table, MissingTable, MoreTables, confVars, tableVars
    <3>2. table \in Tables /\ table \notin torn
      BY <1>1, <2>2, <3>1 DEF Tables
    <3>3. TypeInv'
      BY <1>1, <3>1, <3>2 DEF TypeInv, TypeOK
    <3>4. OneRowPerTable'
      BY <2>2, <3>1, <3>2 DEF OneRowPerTable
    <3> QED
      BY <1>1, <3>1, <3>2, <3>3, <3>4 DEF TablesInv, ServingTablesExist
  <2> QED
    BY <2>1, <2>2
<1>5. CASE InsertRow
  <2>1. /\ pc = "inserting" /\ pc' = "tables" /\ table' = table + 1
        /\ rows' = [rows EXCEPT ![table] = @ + 1]
        /\ UNCHANGED <<file, opened, line, parameter_value, config, known, exists, torn, failures>>
    BY <1>5 DEF InsertRow, confVars
  <2>2. /\ table < config.db_count /\ table \in exists \ torn /\ table \in Tables
        /\ \A i \in 0 .. table - 1 : i \in exists
    BY <1>1, <2>1 DEF TablesInv
  <2>3. rows' \in [Tables -> Nat]
    BY <1>1, <2>1, <2>2
  <2>4. TypeInv'
    BY <1>1, <2>1, <2>3 DEF TypeInv, TypeOK
  <2>5. OneRowPerTable'
    BY <1>1, <2>1, <2>2 DEF OneRowPerTable
  <2>6. \A i \in 0 .. table' - 1 : i \in exists
    BY <1>1, <2>1, <2>2
  <2> QED
    BY <1>1, <2>1, <2>2, <2>4, <2>5, <2>6 DEF TablesInv, ServingTablesExist
<1>6. CASE StartLoop
  <2>1. /\ pc = "tables" /\ pc' = "serving"
        /\ ~(table < config.db_count)
        /\ UNCHANGED <<file, opened, line, parameter_value, config, known, table, exists, rows, torn, failures>>
    BY <1>6 DEF StartLoop, MoreTables, confVars, tableVars, dbVars
  <2>2. TypeInv'
    BY <2>1 DEF TypeInv, TypeOK
  <2>3. OneRowPerTable'
    BY <2>1 DEF OneRowPerTable
  <2>4. \A i \in 0 .. config.db_count - 1 : i \in exists
    BY <1>1, <2>1 DEF TablesInv
  <2> QED
    BY <2>1, <2>2, <2>3, <2>4 DEF TablesInv, ServingTablesExist
<1> QED
  BY <1>2, <1>3, <1>4, <1>5, <1>6

LEMMA NextPreserves == IInv /\ [Next]_vars => IInv'
<1> SUFFICES ASSUME IInv, [Next]_vars PROVE IInv'
  OBVIOUS
<1>1. CASE Terminate
  BY <1>1, QuietExitPreserves DEF Terminate, IInv, TypeInv, TypeOK
<1>2. CASE Edit \/ UNCHANGED vars
  <2>1. /\ file' \in Files
        /\ UNCHANGED <<pc, opened, line, parameter_value, config, known, table, exists, rows, torn, failures>>
    BY <1>2 DEF Edit, vars, confVars, tableVars, dbVars, IInv, TypeInv, TypeOK
  <2>2. TypeInv'
    BY <2>1 DEF IInv, TypeInv, TypeOK
  <2> QED
    BY <2>1, <2>2 DEF IInv, TablesInv, OneRowPerTable, ServingTablesExist
<1> QED
  BY <1>1, <1>2, FailsPreserves, StartPreserves, ReadLinePreserves, TablesPreserve
     DEF Next, Step

-----------------------------------------------------------------------------
(***************************************************************************)
(* The configuration. ConfigIsOfTheFile speaks of the end of the file; the *)
(* invariant behind it says the same of the lines read so far.             *)
(***************************************************************************)

ProperSizes(n) == {i \in Lines("databases") : i <= n /\ parse_int_from_value_correctly(opened[i].value)}
ProperRegimes(n) == {i \in Lines("cache-regime") : i <= n /\ IsRegime(opened[i].value)}

SizeOfLines(n, c) ==
  HasValues("databases") =>
    \/ ProperSizes(n) = {} /\ c.db_count = DEFAULT_DATABASES
    \/ \E i \in ProperSizes(n) :
         Decides(ProperSizes(n), i) /\ c.db_count = opened[i].value[1][2]

RegimeOfLines(n, c) ==
  HasValues("cache-regime") =>
    \/ ProperRegimes(n) = {} /\ c.caching_regime = "NO_CACHE"
    \/ \E i \in ProperRegimes(n) :
         Decides(ProperRegimes(n), i) /\ c.caching_regime = RegimeNamed[opened[i].value[1][2]]

OfLines(n, c) == SizeOfLines(n, c) /\ RegimeOfLines(n, c)

ConfigInv ==
  /\ pc = "reading" => OfLines(line - 1, config)
  /\ Configured => OfLines(Len(opened), config)

\* One more line: it decides if it is proper for a field, and else changes nothing.
LEMMA OneLineMore ==
  ASSUME TypeInv, NEW n \in 1 .. Len(opened), OfLines(n - 1, config)
  PROVE  OfLines(n, ParsedLine(opened[n], config))
<1> DEFINE l == opened[n]
           c == ParsedLine(l, config)
<1>1. /\ n \in DOMAIN opened /\ DOMAIN opened = 1 .. Len(opened) /\ Len(opened) \in Nat
      /\ config \in Configs
  BY DEF TypeInv
<1>2. SizeOfLines(n, c)
  <2> SUFFICES ASSUME HasValues("databases")
               PROVE  \/ ProperSizes(n) = {} /\ c.db_count = DEFAULT_DATABASES
                      \/ \E i \in ProperSizes(n) :
                           Decides(ProperSizes(n), i) /\ c.db_count = opened[i].value[1][2]
    BY DEF SizeOfLines
  <2>1. \/ ProperSizes(n - 1) = {} /\ config.db_count = DEFAULT_DATABASES
        \/ \E i \in ProperSizes(n - 1) :
             Decides(ProperSizes(n - 1), i) /\ config.db_count = opened[i].value[1][2]
    BY DEF OfLines, SizeOfLines
  <2>2. CASE l.name = "databases" /\ parse_int_from_value_correctly(l.value)
    <3>1. n \in ProperSizes(n) /\ Decides(ProperSizes(n), n)
      BY <1>1, <2>2 DEF ProperSizes, Decides, Lines
    <3>2. Value(l) = l.value
      BY <2>2 DEF Value, parse_int_from_value_correctly
    <3>3. c = [config EXCEPT !.db_count = l.value[1][2]]
      BY <2>2, <3>2 DEF ParsedLine, Databases
    <3>4. c.db_count = l.value[1][2]
      BY <1>1, <3>3 DEF Configs
    <3> QED
      BY <3>1, <3>4
  <2>3. CASE ~(l.name = "databases" /\ parse_int_from_value_correctly(l.value))
    <3>1. ProperSizes(n) = ProperSizes(n - 1)
      BY <1>1, <2>3 DEF ProperSizes, Lines
    <3>2. l.name = "databases" => Value(l) = l.value
      BY <1>1 DEF HasValues, Lines, Value
    <3>3. c.db_count = config.db_count
      BY <1>1, <2>3, <3>2 DEF ParsedLine, Databases, CacheRegime, Configs
    <3> QED
      BY <2>1, <3>1, <3>3
  <2> QED
    BY <2>2, <2>3
<1>3. RegimeOfLines(n, c)
  <2> SUFFICES ASSUME HasValues("cache-regime")
               PROVE  \/ ProperRegimes(n) = {} /\ c.caching_regime = "NO_CACHE"
                      \/ \E i \in ProperRegimes(n) :
                           /\ Decides(ProperRegimes(n), i)
                           /\ c.caching_regime = RegimeNamed[opened[i].value[1][2]]
    BY DEF RegimeOfLines
  <2>1. \/ ProperRegimes(n - 1) = {} /\ config.caching_regime = "NO_CACHE"
        \/ \E i \in ProperRegimes(n - 1) :
             /\ Decides(ProperRegimes(n - 1), i)
             /\ config.caching_regime = RegimeNamed[opened[i].value[1][2]]
    BY DEF OfLines, RegimeOfLines
  <2>2. CASE l.name = "cache-regime" /\ IsRegime(l.value)
    <3>1. n \in ProperRegimes(n) /\ Decides(ProperRegimes(n), n)
      BY <1>1, <2>2 DEF ProperRegimes, Decides, Lines
    <3>2. Value(l) = l.value
      BY <2>2 DEF Value, IsRegime
    <3>3. c = [config EXCEPT !.caching_regime = RegimeNamed[l.value[1][2]]]
      BY <2>2, <3>2 DEF ParsedLine, CacheRegime
    <3>4. c.caching_regime = RegimeNamed[l.value[1][2]]
      BY <1>1, <3>3 DEF Configs
    <3> QED
      BY <3>1, <3>4
  <2>3. CASE ~(l.name = "cache-regime" /\ IsRegime(l.value))
    <3>1. ProperRegimes(n) = ProperRegimes(n - 1)
      BY <1>1, <2>3 DEF ProperRegimes, Lines
    <3>2. l.name = "cache-regime" => Value(l) = l.value
      BY <1>1 DEF HasValues, Lines, Value
    <3>3. c.caching_regime = config.caching_regime
      BY <1>1, <2>3, <3>2 DEF ParsedLine, Databases, CacheRegime, Configs
    <3> QED
      BY <2>1, <3>1, <3>3
  <2> QED
    BY <2>2, <2>3
<1> QED
  BY <1>2, <1>3 DEF OfLines

\* Before the first line the configuration is the default one; a line may decide
\* for its field; the other steps leave file and configuration as they are.
LEMMA ConfigPreserved ==
  ASSUME IInv, IInv', ConfigInv, [Next]_vars
  PROVE  ConfigInv'
<1> USE DEF OfLines, SizeOfLines, RegimeOfLines, ProperSizes, ProperRegimes, Lines, HasValues, Decides
<1>1. CASE UNCHANGED <<opened, config>> /\ (Configured' => Configured) /\ pc' # "reading"
  BY <1>1 DEF ConfigInv
<1>2. CASE UNCHANGED <<opened, config, line, pc>>
  BY <1>2 DEF ConfigInv, Configured
<1>3. CASE pc' \in {"down", "spinning"}
  BY <1>3 DEF ConfigInv, Configured
<1>4. CASE pc' = "reading" /\ line' = 1 /\ config' = DEFAULT_CONFIG
  <2>1. opened' \in Seq(FileLine)
    BY DEF IInv, TypeInv
  <2>2. \A i \in DOMAIN opened' : ~(i <= line' - 1)
    BY <1>4, <2>1
  <2> QED
    BY <1>4, <2>2 DEF ConfigInv, Configured, DEFAULT_CONFIG
<1>5. CASE ReadLine /\ pc' = "reading"
  <2>1. /\ pc = "reading" /\ line \in 1 .. Len(opened)
        /\ config' = ParsedLine(opened[line], config)
        /\ line' = line + 1 /\ opened' = opened
    BY <1>5 DEF ReadLine, IInv, TypeInv, Exit
  <2> HIDE DEF OfLines
  <2>2. OfLines(line, config')
    BY <2>1, OneLineMore DEF ConfigInv, IInv
  <2> USE DEF OfLines
  <2>3. line' - 1 = line
    BY <2>1
  <2> QED
    BY <1>5, <2>1, <2>2, <2>3 DEF ConfigInv, Configured
<1>6. CASE init_table
  <2>1. /\ pc = "reading" /\ pc' = "tables" /\ line - 1 = Len(opened)
        /\ UNCHANGED <<opened, config>>
    BY <1>6 DEF init_table, confVars, IInv, TypeInv
  <2> QED
    BY <2>1 DEF ConfigInv, Configured
<1> HIDE DEF OfLines, SizeOfLines, RegimeOfLines, ProperSizes, ProperRegimes, Lines, HasValues, Decides
<1>7. CASE Fails \/ Terminate
  BY <1>3, <1>7 DEF Fails, Terminate, Exit
<1>8. CASE Edit \/ UNCHANGED vars
  BY <1>2, <1>8 DEF Edit, vars, confVars
<1>9. CASE proxy_start_work
  BY <1>3, <1>4, <1>9 DEF proxy_start_work, Exit
<1>10. CASE ReadLine
  BY <1>3, <1>5, <1>10 DEF ReadLine, Exit
<1>11. CASE ExistingTable \/ create_table \/ InsertRow \/ StartLoop
  BY <1>1, <1>3, <1>11 DEF ExistingTable, create_table, MissingTable, InsertRow, StartLoop, Exit,
     confVars, Configured
<1> QED
  BY <1>6, <1>7, <1>8, <1>9, <1>10, <1>11 DEF Next, Step

-----------------------------------------------------------------------------

\* The variables of the worker and of PostgreSQL hold what their types say; in
\* particular no start goes past the tables that its configuration asks for.
THEOREM TypeCorrect == Spec => []TypeOK
<1>1. Spec => []IInv
  BY InitInvariant, NextPreserves, PTL DEF Spec
<1>2. IInv => TypeOK
  BY DEF IInv, TypeInv
<1> QED
  BY <1>1, <1>2, PTL

\* A table has one row, whatever starts it was created and found by, unless its
\* creation was cut short (init_table, create_table).
THEOREM TablesHaveOneRow == Spec => []OneRowPerTable
<1>1. Spec => []IInv
  BY InitInvariant, NextPreserves, PTL DEF Spec
<1>2. IInv => OneRowPerTable
  BY DEF IInv
<1> QED
  BY <1>1, <1>2, PTL

\* A worker that serves has every table of its configuration (init_table).
THEOREM ServingHasItsTables == Spec => []ServingTablesExist
<1>1. Spec => []IInv
  BY InitInvariant, NextPreserves, PTL DEF Spec
<1>2. IInv => ServingTablesExist
  BY DEF IInv
<1> QED
  BY <1>1, <1>2, PTL

\* The configuration behind a file is the one that its last proper lines ask
\* for, whatever the stack held when it was read (init_configuration).
THEOREM ConfigurationIsTheFiles == Spec => []ConfigIsOfTheFile
<1>1. Spec => []IInv
  BY InitInvariant, NextPreserves, PTL DEF Spec
<1>2. Init => ConfigInv
  BY DEF Init, ConfigInv, Configured
<1>3. IInv /\ IInv' /\ ConfigInv /\ [Next]_vars => ConfigInv'
  BY ConfigPreserved
<1>4. Spec => []ConfigInv
  BY <1>1, <1>2, <1>3, PTL DEF Spec
<1>5. IInv /\ ConfigInv => ConfigIsOfTheFile
  <2> SUFFICES ASSUME IInv, Configured, OfLines(Len(opened), config)
               PROVE  ConfigIsOfTheFile
    BY DEF ConfigInv, ConfigIsOfTheFile
  <2>1. DOMAIN opened = 1 .. Len(opened)
    BY DEF IInv, TypeInv
  <2>2. /\ ProperSizes(Len(opened)) =
             {i \in Lines("databases") : parse_int_from_value_correctly(opened[i].value)}
        /\ ProperRegimes(Len(opened)) = {i \in Lines("cache-regime") : IsRegime(opened[i].value)}
    BY <2>1 DEF ProperSizes, ProperRegimes, Lines
  <2> QED
    BY <2>2 DEF ConfigIsOfTheFile, OfLines, SizeOfLines, RegimeOfLines
<1> QED
  BY <1>1, <1>4, <1>5, PTL
=============================================================================
