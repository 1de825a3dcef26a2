------------------------------ MODULE MCBuildRun ------------------------------
(* Every choice of options, in two orders; requests meet PDAs that differ in *)
(* the sbf args, in the arch, and in an empty list of cargo args.            *)
EXTENDS BuildRun

Options ==
    [lib: {None, "two", "="}, image: {None} \cup {"--base-image", "-b"} \X {"two", "="},
     mount: {None, "two", "="}, sbf: {None, "=", "= quoted", "two", "two quoted"},
     bpf: BOOLEAN, arch: {None, "two", "="},
     cargo: {None, <<>>, <<Word("--features"), Word("f")>>}]

\* An option and its value, as two args or as one.
Piece(flag, form, v) ==
    CASE form = None -> <<>>
      [] form = "=" -> <<Assign(flag, Word(v))>>
      [] form = "= quoted" -> <<Assign(flag, Quoted(v))>>
      [] form = "two" -> <<Word(flag), Word(v)>>
      [] form = "two quoted" -> <<Word(flag), Quoted(v)>>

\* The options as six pieces, the order of which may be turned around.
Written(o, reversed) ==
    LET lib == Piece("--library-name", o.lib, "l")
        image == IF o.image = None THEN <<>> ELSE Piece(o.image[1], o.image[2], "i")
        sbf == Piece(SBF, o.sbf, "tools")
        mount == Piece("--mount-path", o.mount, "m")
        bpf == IF o.bpf THEN <<Word("--bpf")>> ELSE <<>>
        arch == Piece("--arch", o.arch, "v1")
        cargo == IF o.cargo = None THEN <<>> ELSE <<Word("--")>> \o o.cargo
    IN  (IF reversed THEN arch \o bpf \o mount \o sbf \o image \o lib
         ELSE lib \o image \o sbf \o mount \o bpf \o arch) \o cargo

MCPdaArgs == {Written(o, r) : o \in Options, r \in BOOLEAN}

Plain == [lib |-> "two", image |-> None, mount |-> None, sbf |-> None,
          bpf |-> FALSE, arch |-> None, cargo |-> None]
MCRequestedArgs ==
    {Written(o, FALSE) : o \in {Plain, [Plain EXCEPT !.sbf = "="],
        [Plain EXCEPT !.arch = "two"], [Plain EXCEPT !.cargo = <<>>]}}
MCOutputs == {"", "text"} \X {"", "text"}
=============================================================================
