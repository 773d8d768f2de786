------------------------ MODULE MCEventDataPipeline ------------------------
(* Constants for TLC's run of EventDataPipeline.                           *)
EXTENDS EventDataPipeline

AllConsumerFaults == ConsumerFaultKinds
AllWriteFaults == WriteFaultKinds
ThirdMessage == {3}
FileNames == {0, 1, 2, 3}

Cfg(queue_, procs, store) ==
  [consumer |-> "rabbitmq", queue |-> queue_, processors |-> procs,
   storages |-> <<store>>]

Deployed == Cfg("users_caster", <<"rabbitmq_default", "rabbitmq_normalizer">>,
                "filesystem")
Injecting == Cfg("users_caster", <<"noop", "rabbitmq_meta_injector">>,
                 "filesystem")
NoStorage == Cfg("users_caster", <<"rabbitmq_default">>, "s3")
NoProcessor == Cfg("users_caster", <<"rabbitmq">>, "filesystem")
NoCaster == Cfg("orders_caster", <<"noop">>, "filesystem")

TestStrings ==
  ProcessorNames \cup ConsumerNames \cup CasterNames \cup StorageNames
    \cup Supported \cup {"none", "s3", "orders_caster", ".md", ".txt", ".conf"}

File(ext_, body_, cfgs_) == [ext |-> ext_, body |-> body_, cfgs |-> cfgs_]
Directory(files_) == [kind |-> "directory", files |-> files_]
Alone(file_) == [kind |-> "file", files |-> <<file_>>]
Missing == [kind |-> "missing", files |-> <<>>]

TestPaths ==
  {Missing,
   Directory(<<File(".md", "none", <<>>),
               File(".yaml", "array", <<Deployed, Injecting>>),
               File(".json", "other", <<>>),
               File(".yml", "object", <<NoStorage>>)>>),
   Alone(File(".yaml", "array", <<Injecting>>)),
   Alone(File(".conf", "object", <<Deployed>>)),
   Directory(<<File(".txt", "none", <<>>)>>),
   Alone(File(".json", "object", <<NoStorage>>)),
   Alone(File(".json", "array", <<NoProcessor>>)),
   Alone(File(".json", "array", <<NoCaster, Deployed>>))}
=============================================================================
