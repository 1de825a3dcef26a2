------------------------------ MODULE OtterParams ------------------------------
(***************************************************************************)
(* From the args of an Otter Verify PDA to the command that is run         *)
(* (onchain/otter.rs: OtterBuildParams; db.rs: NewBuild; build/mod.rs:     *)
(* build_command), and the part of the parameters that the dedupe query    *)
(* compares (db.rs: latest_build_for_params).                              *)
(*                                                                         *)
(* An arg is a record: a word, whether quotes surround it, and, if it is   *)
(* an option written --option=value, the value.  Repository, commit,       *)
(* program and signer are copied as they are, and left out.                *)
(***************************************************************************)
EXTENDS Naturals, Sequences

CONSTANT None       \* Option::None, SQL NULL

Word(w) == [word |-> w, quoted |-> FALSE, value |-> None]
Quoted(w) == [word |-> w, quoted |-> TRUE, value |-> None]
Assign(w, v) == [word |-> w, quoted |-> FALSE, value |-> v]

SBF == "--cargo-build-sbf-args"
\* The names of the options that take a value, and every other text.
OptionNames == {"--library-name", "--base-image", "-b", "--mount-path",
                "--arch", SBF}
PlainArg == [word: OptionNames \cup {"--bpf", "--"} \cup STRING,
             quoted: BOOLEAN, value: {None}]
Arg == PlainArg \cup [word: OptionNames, quoted: {FALSE}, value: PlainArg]

ASSUME NoneIsNoArg == None \notin Arg \cup Seq(Arg)

\* The positions of the args with this word, and the first of them.
Positions(args, w) == {i \in DOMAIN args : args[i] = Word(w)}
First(positions) == CHOOSE i \in positions : \A j \in positions : i <= j

\* The arg after the first occurrence of the flag, whatever it is.  An arg of
\* the form --option=value is no occurrence.
arg_value(args, flag) ==
    LET at == Positions(args, flag)
    IN  IF at = {} \/ First(at) = Len(args) THEN None ELSE args[First(at) + 1]

strip_surrounding_quotes(v) == [v EXCEPT !.quoted = FALSE]

\* Either form, the first of them that occurs.
get_cargo_build_sbf_args(args) ==
    LET at == {i \in DOMAIN args : args[i].word = SBF /\ ~args[i].quoted}
    IN  IF at = {} THEN None
        ELSE LET arg == args[First(at)]
             IN  IF arg.value # None THEN strip_surrounding_quotes(arg.value)
                 ELSE IF First(at) = Len(args) THEN None
                 ELSE strip_surrounding_quotes(args[First(at) + 1])

\* Mutant: only the long flag.
base_image_long(args) == arg_value(args, "--base-image")

get_base_image(args) ==
    LET image == arg_value(args, "--base-image")
    IN  IF image # None THEN image ELSE arg_value(args, "-b")

get_cargo_args(args) ==
    LET at == Positions(args, "--")
    IN  IF at = {} THEN None ELSE SubSeq(args, First(at) + 1, Len(args))

NewBuild(args) ==
    [lib_name |-> arg_value(args, "--library-name"),
     base_docker_image |-> get_base_image(args),
     mount_path |-> arg_value(args, "--mount-path"),
     cargo_args |-> get_cargo_args(args),
     cargo_build_sbf_args |-> get_cargo_build_sbf_args(args),
     bpf_flag |-> Positions(args, "--bpf") # {},
     arch |-> arg_value(args, "--arch")]

\* A flag and its value on the command line, or nothing.
Flag(flag, v) == IF v = None THEN <<>> ELSE <<Word(flag), v>>

build_command(p) ==
    Flag("--library-name", p.lib_name)
    \o Flag("--base-image", p.base_docker_image)
    \o (IF p.cargo_build_sbf_args = None THEN <<>>
        ELSE <<Assign(SBF, p.cargo_build_sbf_args)>>)
    \o Flag("--mount-path", p.mount_path)
    \o (IF p.bpf_flag THEN <<Word("--bpf")>> ELSE <<>>)
    \o Flag("--arch", p.arch)
    \o (IF p.cargo_args \in {None, <<>>} THEN <<>>
        ELSE <<Word("--")>> \o p.cargo_args)

\* Mutant: the query has forgotten a column.
key_without_arch(p) ==
    <<p.lib_name, p.base_docker_image, p.mount_path, p.cargo_args, p.bpf_flag>>

\* The columns of the dedupe query.  cargo_build_sbf_args has none, and an
\* empty array of cargo args is not NULL.
dedupe_key(p) ==
    <<p.lib_name, p.base_docker_image, p.mount_path, p.cargo_args, p.bpf_flag,
      p.arch>>

-----------------------------------------------------------------------------
(* The reference: what solana-verify's own parser reads from a command.    *)

OptionOf == [w \in OptionNames |-> IF w = "-b" THEN "--base-image" ELSE w]

NoOptions == [w \in {"--library-name", "--base-image", "--mount-path",
                     "--arch", SBF, "--bpf", "--"} |->
    CASE w = "--bpf" -> FALSE [] w = "--" -> <<>> [] OTHER -> None]

\* What the args from the i-th on are read as, given how those after it
\* (next) and those after its value (after) are.  "--" ends the options, an sbf
\* value is unquoted, and an option that misses its value is an error.
read_arg(cmd, i, next, after) ==
    LET w == cmd[i].word
        read(v) == IF w = SBF THEN strip_surrounding_quotes(v) ELSE v
    IN  IF cmd[i] = Word("--")
        THEN [NoOptions EXCEPT !["--"] = SubSeq(cmd, i + 1, Len(cmd))]
        ELSE IF cmd[i] = Word("--bpf") THEN [next EXCEPT !["--bpf"] = TRUE]
        ELSE IF cmd[i].value # None
             THEN [next EXCEPT ![OptionOf[w]] = read(cmd[i].value)]
        ELSE IF i < Len(cmd)
             THEN [after EXCEPT ![OptionOf[w]] = read(cmd[i + 1])]
        ELSE NoOptions

Readings(cmd) ==
    LET from[i \in 1..(Len(cmd) + 2)] ==
            IF i > Len(cmd) THEN NoOptions
            ELSE read_arg(cmd, i, from[i + 1], from[i + 2])
    IN  from

ClapParse(cmd) == Readings(cmd)[1]

\* Args that solana-verify accepts: before the first "--" only options, each
\* once, and with a value but for --bpf.  Left out are args with the name of an
\* option for a value or behind the "--".
IsName(arg) == arg.word \in OptionNames \cup {"--bpf", "--"} /\ ~arg.quoted
OptionsEnd(args) ==
    LET at == Positions(args, "--") IN IF at = {} THEN Len(args) + 1 ELSE First(at)
OptionsAt(args) == {i \in 1..(OptionsEnd(args) - 1) : IsName(args[i])}
TakesNext(arg) == arg.word # "--bpf" /\ arg.value = None
Names(arg) == IF arg.word = "--bpf" THEN "--bpf" ELSE OptionOf[arg.word]

WellFormed(args) ==
    LET end == OptionsEnd(args)
        options == OptionsAt(args)
    IN  /\ \A i \in (end + 1)..Len(args) : ~IsName(args[i])
        /\ \A i \in options : TakesNext(args[i]) => i + 1 \in (1..(end - 1)) \ options
        /\ \A i \in (1..(end - 1)) \ options : i - 1 \in options /\ TakesNext(args[i - 1])
        /\ \A i, j \in options : Names(args[i]) = Names(args[j]) => i = j

\* An option other than the sbf one is written --option=value.
LosesOption(args) ==
    \E i \in OptionsAt(args) : args[i].word # SBF /\ args[i].value # None
=============================================================================
