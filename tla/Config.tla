------------------------------- MODULE Config -------------------------------
(***************************************************************************)
(* Loading the pipelines' configurations (pkg/config/loader.go): what      *)
(* NewPipelineConfig makes of a file or of a directory of files.           *)
(*                                                                         *)
(* A file has an extension and a body.  A body is an array or an object of *)
(* configurations ("array", "object", with the configurations in cfgs), an *)
(* empty array or another value ("other"), or no document ("none").  A     *)
(* path names nothing ("missing"), a file or a directory.                  *)
(***************************************************************************)
EXTENDS Naturals, Sequences

CONSTANT Strings        \* the strings of extensions and configurations

ASSUME ConfigAssumption == "none" \in Strings

Supported == {".json", ".yaml", ".yml"}

IsSupported(ext) == ext \in Supported

PipelineCfgs ==
  [consumer : Strings, queue : Strings, processors : Seq(Strings),
   storages : Seq(Strings)]

ConfigFiles ==
  {f \in [ext : Strings, body : {"array", "object", "other", "none"},
          cfgs : Seq(PipelineCfgs)] :
     f.cfgs = <<>> <=> f.body \in {"other", "none"}}

ConfigPaths ==
  {path \in [kind : {"missing", "file", "directory"},
             files : Seq(ConfigFiles)] :
     path.kind = "file" => Len(path.files) = 1}

\* A nil entry and one without a consumer: Run fails on both alike.
NoConsumer ==
  [consumer |-> "none", queue |-> "none", processors |-> <<>>,
   storages |-> <<>>]

\* The error of a body that is no array is logged, and the array is empty.
UnmarshalArr(f) ==
  IF IsSupported(f.ext) /\ f.body = "array" THEN f.cfgs ELSE <<>>

\* Errors are ignored: garbage and null leave a nil pointer, a value of
\* another type a configuration with no field set.
Unmarshal(f) ==
  IF IsSupported(f.ext) /\ f.body = "object" THEN f.cfgs[1] ELSE NoConsumer

\* Mutant: no return after an array was appended.
AppendConfsTwice(f) ==
  UnmarshalArr(f) \o <<Unmarshal(f)>>

\* appendConfs: a file contributes its array, or else one configuration,
\* whatever is in it.
AppendConfs(f) ==
  IF UnmarshalArr(f) # <<>> THEN UnmarshalArr(f) ELSE <<Unmarshal(f)>>

PathExists(path) == path.kind # "missing"

IsDir(path) == PathExists(path) /\ path.kind = "directory"

\* A file named by itself is read whatever its extension, one in a directory
\* only when that is supported.
IsRead(path, f) == IsDir(path) => IsSupported(f.ext)

Loads(path, f) == IF IsRead(path, f) THEN AppendConfs(f) ELSE <<>>

\* The empty sequence is the nil slice, of a path that does not exist and of
\* a directory without a supported file; normalising turns nil into nil, and
\* changes nothing of a configuration that is told apart here.
NewPipelineConfig(path) ==
  LET loaded[i \in 0 .. Len(path.files)] ==
        IF i = 0 THEN <<>> ELSE loaded[i - 1] \o Loads(path, path.files[i])
  IN IF PathExists(path) THEN loaded[Len(path.files)] ELSE <<>>
=============================================================================
