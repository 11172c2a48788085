------------------------------ MODULE Settings ------------------------------
(***************************************************************************)
(* Settings read from a file: Config::LoadFromConfDir and LoadFromYaml of  *)
(* config.cc, ConfigVar of config.h with its listeners, and two listeners: *)
(* the one that keeps the connect timeout of the hook (hook.cc) and the    *)
(* one that sets the loggers up (log.cpp).  Any thread may load, and the   *)
(* file changes meanwhile.                                                 *)
(*                                                                         *)
(* The value of the variable "logs" is a function from names of loggers to *)
(* their definitions, a level and a sequence of appenders; that of any     *)
(* other variable is a number, kept by its listener as it is.              *)
(***************************************************************************)
EXTENDS Integers, Sequences, FiniteSets, SequencesExt

CONSTANTS
  Loaders,       \* who may load the settings
  Appenders,     \* what a logger may write to, "out" for the terminal
  LoggerNames,   \* a sequence: std::set keeps the definitions in this order
  Contents,      \* what may be in the file: a sequence of <<variable, value>>
                 \*   in the order of the document, or Broken
  Defaults,      \* the values the program registers
  Broken,        \* a file YAML cannot read
  Bad,           \* a text that is no value of its variable
  Daemon,        \* the program runs with -d
  NotSet,        \* LogLevel::NOTSET
  MaxLoads,      \* bound: loads
  MaxChanges     \* bound: changes of the file

\* What a file may say, and a program register: a definition is of a logger that
\* has a name, std::set has each once, and "logs" starts empty.
Entries == UNION {ToSet(c) : c \in Contents \ {Broken}}
ASSUME SettingsAssumption ==
  /\ \A c \in Contents : c = Broken \/ c \in Seq(Entries)
  /\ \A e \in Entries : e[1] = "logs" /\ e[2] # Bad =>
       /\ DOMAIN e[2] \subseteq ToSet(LoggerNames)
       /\ \A n \in DOMAIN e[2] : e[2][n].appenders \in Seq(Appenders)
  /\ LoggerNames \in Seq(ToSet(LoggerNames)) /\ IsInjective(LoggerNames)
  /\ Defaults = [v \in DOMAIN Defaults |-> Defaults[v]]
  /\ "logs" \in DOMAIN Defaults => DOMAIN Defaults["logs"] = {}

VARIABLES
  document,      \* its content and the second it was changed in
  recorded,      \* s_file2modifytime of the file
  value,         \* m_val of each variable
  kept,          \* what the listeners have made of them
  loader,        \* where each loader is
  loads, changes,
  alone,         \* history: the load under way has seen no other and no change
  trusted,       \* history: what was recorded was read so, and not changed within
                 \*   the second
  applied,       \* history: the last that happened was a load that stands
  clashed        \* history: the variables that two have set at the same time
watched == <<alone, trusted, applied, clashed>>
settingsVars == <<document, recorded, value, kept, loader, loads, changes, watched>>

Out == [at |-> "out"]
SettingsInit ==
  /\ document \in [content : Contents, mtime : {1}] /\ recorded = 0
  /\ value = Defaults
  /\ kept = [v \in DOMAIN Defaults |->
               IF v # "logs" THEN Defaults[v]
               ELSE [n \in ToSet(LoggerNames) |-> [level |-> "INFO", appenders |-> <<>>]]]
  /\ loader = [l \in Loaders |-> Out]
  /\ loads = 0 /\ changes = 0
  /\ alone = {} /\ trusted = TRUE /\ applied = FALSE /\ clashed = {}

(***************************************************************************)
(* ConfigVar::setValue.                                                    *)
(***************************************************************************)
\* LogDefine::operator== compares names and levels: it compares the appenders
\* of the one with themselves
SameDefine(d, e) == d.level = e.level
SameValue(v, x, y) ==
  IF v = "logs" THEN DOMAIN x = DOMAIN y /\ \A n \in DOMAIN x : SameDefine(x[n], y[n])
  ELSE x = y
\* a daemon has no terminal to write to
Shown(appenders) ==
  LET shown[i \in 0..Len(appenders)] ==
        IF i = 0 THEN <<>>
        ELSE IF Daemon /\ appenders[i] = "out" THEN shown[i - 1]
        ELSE Append(shown[i - 1], appenders[i])
  IN shown[Len(appenders)]
\* the listener of "logs", call by call
Adds(n, d) == LET shown == Shown(d.appenders)
              IN [i \in DOMAIN shown |-> [set |-> "add", name |-> n, to |-> shown[i]]]
\* Faulty: a logger that is set up keeps its level.
SetUpSameLevel(n, d) == <<[set |-> "clear", name |-> n]>> \o Adds(n, d)
SetUp(n, d) ==
  <<[set |-> "level", name |-> n, to |-> d.level], [set |-> "clear", name |-> n]>> \o Adds(n, d)
Shut(n) == <<[set |-> "level", name |-> n, to |-> NotSet], [set |-> "clear", name |-> n]>>
\* one turn of its loops, of which the first goes over the new value, the second
\* over the old one; the other listeners have one turn
Differs(n, old, new) == n \in DOMAIN new /\ ~(n \in DOMAIN old /\ SameDefine(new[n], old[n]))
Loggers == Len(LoggerNames)
Turns(v) == IF v = "logs" THEN 2 * Loggers ELSE 1
OnChange(v, old, new, turn) ==
  IF v # "logs" THEN <<[set |-> "value", name |-> v, to |-> new]>>
  ELSE IF turn <= Loggers
    THEN LET n == LoggerNames[turn] IN IF Differs(n, old, new) THEN SetUp(n, new[n]) ELSE <<>>
    ELSE LET n == LoggerNames[turn - Loggers]
         IN IF n \in DOMAIN old \ DOMAIN new THEN Shut(n) ELSE <<>>
\* one call of a listener
Applied(k, call) ==
  CASE call.set = "level" -> [k EXCEPT !["logs"][call.name].level = call.to]
    [] call.set = "clear" -> [k EXCEPT !["logs"][call.name].appenders = <<>>]
    [] call.set = "add"   -> [k EXCEPT !["logs"][call.name].appenders = Append(@, call.to)]
    [] call.set = "value" -> [k EXCEPT ![call.name] = call.to]

(***************************************************************************)
(* Config::LoadFromConfDir, for one file.                                  *)
(***************************************************************************)
Setting(v) == {l \in Loaders : loader[l].at \in {"notify", "write"} /\ loader[l].todo[1][1] = v}
Move(l, s) == loader' = [loader EXCEPT ![l] = s]
\* how a load ends: it read the file, or found it recorded as read
Leave(l, read) ==
  /\ Move(l, Out)
  /\ alone' = alone \ {l}
  /\ applied' = (l \in alone /\ (read \/ trusted))
  /\ trusted' = (l \in alone /\ (read \/ trusted))
\* the file is listed and lstat says when it was changed
BeginLoad(l) ==
  /\ loader[l] = Out /\ loads < MaxLoads
  /\ \E force \in BOOLEAN : Move(l, [at |-> "check", force |-> force, stat |-> document.mtime])
  /\ loads' = loads + 1
  /\ alone' = IF \A m \in Loaders : loader[m] = Out THEN {l} ELSE {}
  /\ applied' = FALSE
  /\ UNCHANGED <<document, recorded, value, kept, changes, trusted, clashed>>
\* under s_mutex
CheckTime(l) ==
  /\ loader[l].at = "check"
  /\ IF ~loader[l].force /\ recorded = loader[l].stat
       THEN Leave(l, FALSE) /\ UNCHANGED recorded
       ELSE /\ recorded' = loader[l].stat
            /\ Move(l, [at |-> "read"])
            /\ UNCHANGED <<alone, trusted, applied>>
  /\ UNCHANGED <<document, value, kept, loads, changes, clashed>>
\* YAML::LoadFile; what it throws is caught
LoadFile(l) ==
  /\ loader[l].at = "read"
  /\ IF document.content = Broken
       THEN Leave(l, TRUE)
       ELSE /\ Move(l, [at |-> "next", todo |-> document.content])
            /\ UNCHANGED <<alone, trusted, applied>>
  /\ UNCHANGED <<document, recorded, value, kept, loads, changes, clashed>>
\* LoadFromYaml: the next variable.  One nobody registered is passed over, and
\* so is a text that is no value of it, which fromString logs.
NextVar(l) ==
  /\ loader[l].at = "next"
  /\ LET todo == loader[l].todo
     IN IF todo = <<>> THEN Leave(l, TRUE) /\ UNCHANGED clashed
        ELSE /\ LET v == todo[1][1]
                    x == todo[1][2]
                IN IF v \in DOMAIN value /\ x # Bad /\ ~SameValue(v, x, value[v])
                     THEN /\ Move(l, [at |-> "notify", todo |-> todo, turn |-> 1, done |-> 0])
                          /\ clashed' = IF Setting(v) = {} THEN clashed ELSE clashed \cup {v}
                     ELSE Move(l, [at |-> "next", todo |-> Tail(todo)]) /\ UNCHANGED clashed
             /\ UNCHANGED <<alone, trusted, applied>>
  /\ UNCHANGED <<document, recorded, value, kept, loads, changes>>
\* the listeners, under the read lock of the variable, whose value they are handed
Notify(l) ==
  /\ loader[l].at = "notify"
  /\ LET v == loader[l].todo[1][1]
         calls == OnChange(v, value[v], loader[l].todo[1][2], loader[l].turn)
     IN /\ loader[l].turn <= Turns(v)
        /\ IF loader[l].done < Len(calls)
             THEN /\ kept' = Applied(kept, calls[loader[l].done + 1])
                  /\ Move(l, [loader[l] EXCEPT !.done = @ + 1])
             ELSE /\ Move(l, [loader[l] EXCEPT !.turn = @ + 1, !.done = 0])
                  /\ UNCHANGED kept
  /\ UNCHANGED <<document, recorded, value, loads, changes, watched>>
Unlock(l) ==
  /\ loader[l].at = "notify" /\ loader[l].turn > Turns(loader[l].todo[1][1])
  /\ Move(l, [at |-> "write", todo |-> loader[l].todo])
  /\ UNCHANGED <<document, recorded, value, kept, loads, changes, watched>>
\* under the write lock: while nobody has the read lock
WriteValue(l) ==
  /\ loader[l].at = "write"
  /\ LET v == loader[l].todo[1][1]
     IN /\ \A m \in Setting(v) : loader[m].at # "notify"
        /\ value' = [value EXCEPT ![v] = loader[l].todo[1][2]]
  /\ Move(l, [at |-> "next", todo |-> Tail(loader[l].todo)])
  /\ UNCHANGED <<document, recorded, kept, loads, changes, watched>>

\* the file is written again, in the same second or later
Change ==
  /\ changes < MaxChanges
  /\ changes' = changes + 1
  /\ \E c \in Contents \ {document.content}, t \in {0, 1} :
       /\ document' = [content |-> c, mtime |-> document.mtime + t]
       /\ trusted' = (trusted /\ (t = 1 \/ recorded # document.mtime))
  /\ alone' = {} /\ applied' = FALSE
  /\ UNCHANGED <<recorded, value, kept, loader, loads, clashed>>

Load(l) == BeginLoad(l) \/ CheckTime(l) \/ LoadFile(l) \/ NextVar(l) \/ Notify(l) \/ Unlock(l)
             \/ WriteValue(l)
SettingsNext == Change \/ \E l \in Loaders : Load(l)
SettingsSpec == SettingsInit /\ [][SettingsNext]_settingsVars

(***************************************************************************)
(* After a load that met no other and no change of the file, the variables *)
(* have the values of the file; that it passes a file over whose time was  *)
(* recorded is no exception, unless the file changed again within that     *)
(* second or two loads met.  And what the listeners keep follows the       *)
(* variables, unless two set the same one at the same time: the hook's     *)
(* timeout is the variable's, a logger that is configured has the level of *)
(* its definition and never the appenders of two, and one that is no       *)
(* longer configured has nothing to write to.                              *)
(***************************************************************************)
LastIn(content, v, p) ==
  /\ content[p][1] = v /\ content[p][2] # Bad
  /\ \A q \in DOMAIN content : q > p /\ content[q][1] = v => content[q][2] = Bad
AsInFile ==
  document.content # Broken =>
    \A v \in DOMAIN value, p \in DOMAIN document.content :
      LastIn(document.content, v, p) => SameValue(v, value[v], document.content[p][2])
Written(n) == {e[2][n] : e \in {f \in Entries : f[1] = "logs" /\ f[2] # Bad /\ n \in DOMAIN f[2]}}
HasValue(n, x) ==
  LET logger == kept["logs"][n]
  IN IF n \in DOMAIN x
       THEN /\ logger.level = x[n].level
            /\ \E d \in Written(n) : logger.appenders = Shown(d.appenders)
       ELSE logger.appenders = <<>>
Follows(v) ==
  IF v = "logs" THEN \A n \in ToSet(LoggerNames) : HasValue(n, value[v]) ELSE kept[v] = value[v]
LoadApplies ==
  /\ applied => AsInFile
  /\ \A v \in DOMAIN value \ clashed : Setting(v) = {} => Follows(v)
=============================================================================
