------------------------------- MODULE Config -------------------------------
(***************************************************************************)
(* Config::init: the settings come from the defaults, then from a JSON     *)
(* file, then from the command line.                                       *)
(***************************************************************************)
EXTENDS Integers, Sequences, FiniteSetsExt

CONSTANTS
    Fields,         \* the fields that CONFIG_ITEMS declares
    Default,        \* their defaults
    Flag,           \* their command line flags
    Stoi,           \* std::stoi on the strings it accepts
    IntSpan,        \* 2^32, the number of values of an int
    Arguments,      \* the command lines that are tried
    FileSystems     \* the files there may be: paths to contents

Int32 == -(IntSpan \div 2) .. IntSpan \div 2 - 1

ASSUME ConfigAssumption ==
    /\ IntSpan \in Nat /\ IntSpan % 2 = 0
    /\ Default \in [Fields -> Int32]
    /\ \A text \in DOMAIN Stoi : Stoi[text] \in Int32
    /\ "--config" \notin DOMAIN Stoi
    /\ \A words \in Arguments : words \in Seq({words[n] : n \in DOMAIN words})
    /\ \A f, g \in Fields : Flag[f] = Flag[g] => f = g
    /\ \A f \in Fields : Flag[f] \notin {"--config", "--dump-config"}
    /\ \A disk \in FileSystems : \A path \in DOMAIN disk : \A f \in Fields :
         disk[path].json /\ f \in DOMAIN disk[path].items => disk[path].items[f].n \in Int

VARIABLES
    argv,           \* the arguments after the program's name
    files,          \* what the file system holds
    fields,         \* the fields of the Config
    config_path,
    dump_config_,
    i,              \* the loop variable of parseCommandLine
    stage           \* where init is

configVars == << argv, files, fields, config_path, dump_config_, i, stage >>

ConfigInit ==
    /\ argv \in Arguments
    /\ files \in FileSystems
    /\ fields = Default
    /\ config_path = "config.json"
    /\ dump_config_ = FALSE
    /\ i = 1
    /\ stage = "scan"

-----------------------------------------------------------------------------
(* Mutant: the last --config is taken. *)
FindPath_Last ==
    LET found == {n \in 1 .. Len(argv) - 1 : argv[n] = "--config"} IN
    /\ stage = "scan"
    /\ stage' = "load"
    /\ config_path' = IF found = {} THEN config_path ELSE argv[Max(found) + 1]
    /\ UNCHANGED << argv, files, fields, dump_config_, i >>

(* The loop in init: the first --config that has a successor. *)
FindPath ==
    LET found == {n \in 1 .. Len(argv) - 1 : argv[n] = "--config"} IN
    /\ stage = "scan"
    /\ stage' = "load"
    /\ config_path' = IF found = {} THEN config_path ELSE argv[Min(found) + 1]
    /\ UNCHANGED << argv, files, fields, dump_config_, i >>

(* Nothing between here and main catches an exception. *)
Throw ==
    /\ stage' = "thrown"
    /\ UNCHANGED << fields, config_path, dump_config_, i >>

(* Mutant: a number is taken as it is. *)
ToInt_Unbounded(n) == n

(* A JSON number or boolean assigned to an int: the conversion drops what does
   not fit. *)
ToInt(n) == ((n + IntSpan \div 2) % IntSpan) - IntSpan \div 2

(* What a file says about f: contents are the keys of an object with their
   values, or no JSON at all; any other JSON value contains no key. *)
Says(content, f) == content.json /\ f \in DOMAIN content.items

(* loadFromFile: a file that is not there is ignored, one that is not JSON and a
   value that is not a number throw. *)
LoadFromFile ==
    /\ stage = "load"
    /\ UNCHANGED << argv, files >>
    /\ \/ /\ config_path \notin DOMAIN files
          /\ stage' = "parse"
          /\ UNCHANGED << fields, config_path, dump_config_, i >>
       \/ /\ config_path \in DOMAIN files
          /\ LET content == files[config_path]
                 bad == {f \in Fields : Says(content, f) /\ ~ content.items[f].number}
             IN  IF content.json /\ bad = {}
                 THEN /\ fields' = [f \in Fields |-> IF Says(content, f)
                                                     THEN ToInt(content.items[f].n)
                                                     ELSE fields[f]]
                      /\ stage' = "parse"
                      /\ UNCHANGED << config_path, dump_config_, i >>
                 ELSE Throw

(* Skip n arguments in parseCommandLine. *)
Advance(n) ==
    /\ i' = i + n
    /\ UNCHANGED << argv, files, stage >>

HasValue == i < Len(argv)

(* A flag of CONFIG_ITEMS with its value, which stoi may refuse. *)
ParseField(f) ==
    /\ argv[i] = Flag[f] /\ HasValue
    /\ IF argv[i + 1] \in DOMAIN Stoi
       THEN /\ fields' = [fields EXCEPT ![f] = Stoi[argv[i + 1]]]
            /\ UNCHANGED << config_path, dump_config_ >>
            /\ Advance(2)
       ELSE Throw /\ UNCHANGED << argv, files >>

(* The other arguments: --config and its value, --dump-config, and what is not
   known or comes last without its value, which is ignored. *)
ParseOther ==
    /\ \A f \in Fields : ~ (argv[i] = Flag[f] /\ HasValue)
    /\ IF argv[i] = "--config" /\ HasValue
       THEN /\ config_path' = argv[i + 1]
            /\ UNCHANGED << fields, dump_config_ >>
            /\ Advance(2)
       ELSE /\ dump_config_' = (dump_config_ \/ argv[i] = "--dump-config")
            /\ UNCHANGED << fields, config_path >>
            /\ Advance(1)

(* One turn of the loop of parseCommandLine. *)
ParseArgument ==
    /\ stage = "parse" /\ i <= Len(argv)
    /\ ParseOther \/ \E f \in Fields : ParseField(f)

EndParse ==
    /\ stage = "parse" /\ i > Len(argv)
    /\ stage' = "done"
    /\ UNCHANGED << argv, files, fields, config_path, dump_config_, i >>

ConfigStep == FindPath \/ LoadFromFile \/ ParseArgument \/ EndParse

-----------------------------------------------------------------------------
(* The positions of the command line that are the values of options. *)
IsValue ==
    LET value[n \in 1 .. Len(argv)] ==
            /\ n > 1
            /\ ~ value[n - 1]
            /\ argv[n - 1] \in {"--config"} \cup {Flag[f] : f \in Fields}
    IN  value

(* The values given for an option, at the positions they stand at. *)
Given(option) == {n \in 2 .. Len(argv) : IsValue[n] /\ argv[n - 1] = option}

ConfigFile ==
    IF Given("--config") = {} THEN "config.json" ELSE argv[Min(Given("--config"))]

(* When init returns, each setting is the last one of the command line, else the
   file's, else the default (Config.h:23 and 25); the file is the one the command
   line names, although init looks for it without regard to which arguments are the
   values of others. *)
LastSettingWins ==
    stage = "done" =>
        \A f \in Fields :
            fields[f] =
                IF Given(Flag[f]) # {}
                THEN Stoi[argv[Max(Given(Flag[f]))]]
                ELSE IF ConfigFile \in DOMAIN files /\ f \in DOMAIN files[ConfigFile].items
                     THEN ToInt(files[ConfigFile].items[f].n)
                     ELSE Default[f]
=============================================================================
