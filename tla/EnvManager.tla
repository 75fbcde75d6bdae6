----------------------------- MODULE EnvManager -----------------------------
(***************************************************************************)
(* scripts-tools/env_manager.py: changes of a .env file, each with a       *)
(* backup before it, whose name holds a suffix and the time in seconds;    *)
(* and the restoring of a backup.                                          *)
(*                                                                         *)
(* A file is a sequence of <<key, value>>; comments and blank lines are    *)
(* left out.  A file that cannot be decoded reads as an empty one.         *)
(***************************************************************************)
EXTENDS Integers, Sequences, SequencesExt, FiniteSets

CONSTANTS
    Keys,
    MaxSecond,      \* bound: the time
    MaxOps          \* bound: operations

VARIABLES
    envFile,        \* [lines, ok]: ok says whether it can be decoded
    backups,        \* name -> content, the name being <<suffix, second>>
    second, ops,
    past,           \* history: what the file held before each change
    overwritten     \* history: what backups held that another one took the name of

envVars == <<envFile, backups, second, ops, past, overwritten>>

File(lines, ok) == [lines |-> lines, ok |-> ok]

Init ==
    /\ \E k \in Keys, ok \in BOOLEAN : envFile = File(<<<<k, 0>>>>, ok)
    /\ backups = <<>> /\ second = 0 /\ ops = 0 /\ past = {} /\ overwritten = {}

read_env_file == IF envFile.ok THEN envFile.lines ELSE <<>>

\* The line of a key: the last one, 0 for none.
LineOf(key) == LET at == {i \in DOMAIN read_env_file : read_env_file[i][1] = key}
               IN  IF at = {} THEN 0 ELSE Max(at)

\* The backups after one more: a second with the same name replaces it.
create_backup(suffix) ==
    LET name == <<suffix, second>>
    IN  /\ backups' = [n \in DOMAIN backups \cup {name} |-> IF n = name THEN envFile ELSE backups[n]]
        /\ overwritten' = overwritten \cup {backups[n] : n \in DOMAIN backups \cap {name}}

Change(lines) == envFile' = File(lines, TRUE) /\ past' = past \cup {envFile}

Step == ops < MaxOps /\ ops' = ops + 1 /\ UNCHANGED second

\* Mutant: an existing variable is added again.
add_variable_again(key) ==
    /\ Step /\ create_backup("before_add")
    /\ Change(Append(read_env_file, <<key, ops>>))

add_variable(key) ==
    /\ Step /\ LineOf(key) = 0 /\ create_backup("before_add")
    /\ Change(Append(read_env_file, <<key, ops>>))

modify_variable(key) ==
    /\ Step /\ LineOf(key) # 0 /\ create_backup("before_modify")
    /\ Change([read_env_file EXCEPT ![LineOf(key)] = <<key, ops>>])

\* Mutant: no backup before a variable is removed.
remove_variable_now(key) ==
    /\ Step /\ LineOf(key) # 0 /\ UNCHANGED <<backups, overwritten>>
    /\ Change(RemoveAt(read_env_file, LineOf(key)))

remove_variable(key) ==
    /\ Step /\ LineOf(key) # 0 /\ create_backup("before_remove")
    /\ Change(RemoveAt(read_env_file, LineOf(key)))

\* The copy is made after the backup of what there is, which may have taken its name.
restore_backup(name) ==
    /\ Step /\ name \in DOMAIN backups /\ create_backup("before_restore")
    /\ envFile' = backups'[name] /\ past' = past \cup {envFile}

Tick == second < MaxSecond /\ second' = second + 1 /\ UNCHANGED <<envFile, backups, ops, past, overwritten>>

Next ==
    \/ \E k \in Keys : add_variable(k) \/ modify_variable(k) \/ remove_variable(k)
    \/ \E n \in DOMAIN backups : restore_backup(n)
    \/ Tick

------------------------------------------------------------------------------
(* Properties                                                              *)

\* "safe operations and automatic backups": whatever the file ever held, also when it
\* could not be read, is in it or in a backup, unless a change with the same suffix in
\* the same second, or a restore of such a backup, wrote over it.
NothingLost ==
    \A c \in past : c = envFile \/ c \in {backups[n] : n \in DOMAIN backups} \/ c \in overwritten

\* No sequence of changes and restores puts a key into the file twice: what is removed
\* or modified is the only line of its key.
OneLineEach == \A i, j \in DOMAIN envFile.lines : envFile.lines[i][1] = envFile.lines[j][1] => i = j
=============================================================================
