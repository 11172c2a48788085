----------------------------- MODULE MCRuntime -----------------------------
(***************************************************************************)
(* What the runtime keeps of timers, of descriptors and of settings, each  *)
(* for itself: in a behaviour one of them moves and the others rest in     *)
(* their first states.                                                     *)
(***************************************************************************)
EXTENDS Timers, Descriptors, Settings, TLC

CONSTANT Parts
VARIABLE part

Symmetry == Permutations(Threads) \cup Permutations(Callers \ Outsiders)

\* definitions of loggers, and files that name some of the variables
Define(level, appenders) == [level |-> level, appenders |-> appenders]
MCContents ==
  {<<<<"tcp.connect.timeout", 1>>, <<"logs", "a" :> Define("WARN", <<"out">>)>>>>,
   <<<<"logs", ("a" :> Define("DEBUG", <<"file">>)) @@ ("b" :> Define("WARN", <<"out", "file">>))>>,
     <<"tcp.connect.timeout", 1>>>>,
   <<<<"tcp.connect.timeout", Bad>>, <<"logs", "b" :> Define("WARN", <<"file">>)>>>>,
   <<<<"tcp.connect.timeout", 1>>, <<"logs", Bad>>, <<"unknown", 1>>, <<"tcp.connect.timeout", 2>>>>,
   Broken}
MCLoggerNames == <<"a", "b">>
MCDefaults == ("tcp.connect.timeout" :> 5) @@ ("logs" :> <<>>)

RuntimeInit ==
  /\ part \in Parts
  /\ TimersInit /\ DescriptorsInit /\ SettingsInit
  /\ part # "descriptors" => ~parallel
  /\ part # "settings" => document.content = Broken
RuntimeNext ==
  /\ \/ part = "timers" /\ TimersNext /\ UNCHANGED <<descriptorVars, settingsVars>>
     \/ part = "descriptors" /\ DescriptorsNext /\ UNCHANGED <<timersVars, settingsVars>>
     \/ part = "settings" /\ SettingsNext /\ UNCHANGED <<timersVars, descriptorVars>>
  /\ UNCHANGED part
RuntimeSpec == RuntimeInit /\ [][RuntimeNext]_<<part, timersVars, descriptorVars, settingsVars>>
=============================================================================
