------------------------------- MODULE Onchain -------------------------------
(***************************************************************************)
(* The Solana chain as onchain/state.rs and onchain/otter.rs see it: the   *)
(* program and program-data accounts, the Otter Verify PDAs, and what one  *)
(* call of the service's RPC helpers can answer at this moment.            *)
(*                                                                         *)
(* chain[p]    the account at address p: its loader ("none": there is no   *)
(*             account, its owner is no known loader, or it does not parse *)
(*             as a program), whether there is a program with its program- *)
(*             data account, the hash of its bytes, its upgrade authority  *)
(*             and, once frozen, the key that the newest transaction on    *)
(*             its program data shows                                      *)
(* pda[p][w]   the source the PDA of signer w asks to build for p          *)
(* past[p]     history: the hashes p ever had, the keys that ever held its *)
(*             authority, those its transactions showed once it was        *)
(*             frozen, the (signer, source) pairs ever published, and      *)
(*             whether there ever was no open program at p                 *)
(* chain_steps how many times the chain changed (bounded)                  *)
(*                                                                         *)
(* The accounts change at any time by transactions of others; these are    *)
(* the external actions.  A closed program id cannot be deployed again,    *)
(* and programs of the legacy loaders are immutable.                       *)
(***************************************************************************)
EXTENDS Tables

CONSTANTS
    Faults,          \* what may go wrong: "rpc", "parse", "db", "cancel"
    ChainActs,       \* which changes the chain may make
    MaxChainSteps,   \* bound on the changes of the chain
    InitialChains,   \* the chains the service may be started with
    InitialPda

VARIABLES chain, pda, past, chain_steps

chain_vars == <<chain, pda, past, chain_steps>>

ChainPrograms == [loader: {"none", "upgradeable", "legacy"},
                  open: BOOLEAN,
                  hash: Hashes,
                  authority: Signers \cup {None},
                  newest: Signers \cup {None}]

Pasts == [hashes: SUBSET Hashes,
          authorities: SUBSET Signers,
          shown: SUBSET Signers,
          claims: SUBSET (Signers \X Sources),
          closed: BOOLEAN]

ASSUME ChainAssumption ==
    /\ InitialChains \subseteq [Programs -> ChainPrograms]
    /\ \A c \in InitialChains, p \in Programs :
        c[p].loader = "none" => ~c[p].open
    /\ InitialPda \in [Programs -> [Signers -> Sources \cup {None}]]
    /\ MaxChainSteps \in Nat

ChainTypeOK ==
    /\ chain \in [Programs -> ChainPrograms]
    /\ pda \in [Programs -> [Signers -> Sources \cup {None}]]
    /\ past \in [Programs -> Pasts]
    /\ chain_steps \in 0..MaxChainSteps

ChainInit ==
    /\ chain \in InitialChains
    /\ pda = InitialPda
    /\ past = [p \in Programs |->
                [hashes |-> IF chain[p].open THEN {chain[p].hash} ELSE {},
                 authorities |-> {chain[p].authority} \ {None},
                 shown |-> {chain[p].newest} \ {None},
                 claims |-> {c \in Signers \X Sources :
                                InitialPda[p][c[1]] = c[2]},
                 closed |-> ~chain[p].open]]
    /\ chain_steps = 0

-----------------------------------------------------------------------------
(* External actions.                                                       *)

ChainStep(act) ==
    /\ act \in ChainActs
    /\ chain_steps < MaxChainSteps
    /\ chain_steps' = chain_steps + 1

\* A program is deployed at an address that had none.
Deploy(p, h, w) ==
    /\ ChainStep("deploy")
    /\ chain[p].loader = "none"
    /\ chain' = [chain EXCEPT ![p] = [loader |-> "upgradeable", open |-> TRUE,
                                      hash |-> h, authority |-> w,
                                      newest |-> None]]
    /\ past' = [past EXCEPT ![p].hashes = @ \cup {h},
                            ![p].authorities = @ \cup {w}]
    /\ UNCHANGED pda

IsUpgradable(p) ==
    /\ chain[p].loader = "upgradeable"
    /\ chain[p].open
    /\ chain[p].authority # None

Upgrade(p, h) ==
    /\ ChainStep("upgrade")
    /\ IsUpgradable(p)
    /\ h # chain[p].hash
    /\ chain' = [chain EXCEPT ![p].hash = h]
    /\ past' = [past EXCEPT ![p].hashes = @ \cup {h}]
    /\ UNCHANGED pda

CloseProgram(p) ==
    /\ ChainStep("close")
    /\ IsUpgradable(p)
    /\ chain' = [chain EXCEPT ![p].open = FALSE, ![p].authority = None]
    /\ past' = [past EXCEPT ![p].closed = TRUE]
    /\ UNCHANGED pda

TransferAuthority(p, w) ==
    /\ ChainStep("transfer")
    /\ IsUpgradable(p)
    /\ w # chain[p].authority
    /\ chain' = [chain EXCEPT ![p].authority = w]
    /\ past' = [past EXCEPT ![p].authorities = @ \cup {w}]
    /\ UNCHANGED pda

\* The authority is given up, by a transaction that shows w: the key that
\* paid its fee, or the fifth account of its Squads instruction.
Freeze(p, w) ==
    /\ ChainStep("freeze")
    /\ IsUpgradable(p)
    /\ chain' = [chain EXCEPT ![p].authority = None, ![p].newest = w]
    /\ past' = [past EXCEPT ![p].shown = @ \cup {w}]
    /\ UNCHANGED pda

\* A later transaction names the program data of a frozen program: from now on
\* it is the newest.  Any key may pay for one.
Touch(p, w) ==
    /\ ChainStep("touch")
    /\ chain[p].open /\ chain[p].authority = None
    /\ chain[p].newest # w
    /\ chain' = [chain EXCEPT ![p].newest = w]
    /\ past' = [past EXCEPT ![p].shown = @ \cup {w}]
    /\ UNCHANGED pda

\* Any key may publish a PDA for any program.
PublishPda(p, w, s) ==
    /\ ChainStep("publish")
    /\ pda[p][w] # s
    /\ pda' = [pda EXCEPT ![p][w] = s]
    /\ past' = [past EXCEPT ![p].claims = @ \cup {<<w, s>>}]
    /\ UNCHANGED chain

ChainNext ==
    \E p \in Programs :
        \/ \E h \in Hashes, w \in Signers : Deploy(p, h, w)
        \/ \E h \in Hashes : Upgrade(p, h)
        \/ CloseProgram(p)
        \/ \E w \in Signers : TransferAuthority(p, w) \/ Freeze(p, w) \/ Touch(p, w)
        \/ \E w \in Signers, s \in Sources : PublishPda(p, w, s)

-----------------------------------------------------------------------------
(* What the RPC helpers answer.  "rpc" in Faults: any call may fail.       *)
(* "parse" in Faults: a program-data account may not parse.                *)

RpcFails == "rpc" \in Faults

\* ProgramOnchainState::closed() and ::empty().
ClosedSnapshot == [executable_hash |-> None, authority |-> None,
                   is_frozen |-> FALSE, is_closed |-> TRUE]
EmptySnapshot == [executable_hash |-> None, authority |-> None,
                  is_frozen |-> FALSE, is_closed |-> FALSE]

\* What a successful snapshot_programs holds for p when it does not skip it.
\* closed() answers four cases, all of them ~open: no account at p, one of an
\* owner that is no known loader, one that does not parse as a program, and no
\* program-data account.
Snapshot(p) ==
    IF ~chain[p].open THEN ClosedSnapshot
    ELSE [executable_hash |-> chain[p].hash,
          authority |-> chain[p].authority,
          is_frozen |-> chain[p].authority = None,
          is_closed |-> FALSE]

\* Its program-data account is there but cannot be parsed: p is left out.
MaySkip(p) ==
    /\ "parse" \in Faults
    /\ chain[p].loader = "upgradeable"
    /\ chain[p].open

\* Mutant: the authority is read at a wrong account index.
recovered_anyone(p, snap) ==
    IF snap.is_frozen /\ snap.authority = None /\ ~snap.is_closed
    THEN {[snap EXCEPT !.authority = w] : w \in Signers}
    ELSE {snap}

\* recover_burned_authority is tried on a program that looks frozen: it takes
\* the key the newest transaction shows, and does not compare it with anything.
\* Its failure is ignored.
WithRecoveredAuthority(p, snap) ==
    IF snap.is_frozen /\ snap.authority = None /\ ~snap.is_closed
    THEN {[snap EXCEPT !.authority = chain[p].newest]}
         \cup (IF RpcFails THEN {snap} ELSE {})
    ELSE {snap}

\* Mutant: program data that cannot be parsed count as none.
unparsed_as_closed(p) ==
    WithRecoveredAuthority(p, Snapshot(p))
    \cup (IF MaySkip(p) THEN {ClosedSnapshot} ELSE {})

\* The values get_program_state can return; it may also fail when RpcFails.
get_program_state(p) ==
    WithRecoveredAuthority(p, Snapshot(p))
    \cup (IF MaySkip(p) THEN {EmptySnapshot} ELSE {})

\* The answers is_program_data_missing can give.  It is missing when p has no
\* program data: closed, no program at all, or a legacy program, which never
\* had any.  A call that fails is answered too: get_account (solana-client)
\* reports a request it cannot send as "AccountNotFound: pubkey=...", which
\* counts as missing, and an answer it cannot decode otherwise, which does not.
is_program_data_missing(p) ==
    {chain[p].loader = "legacy" \/ ~chain[p].open}
    \cup (IF RpcFails THEN BOOLEAN ELSE {})

-----------------------------------------------------------------------------
(* get_otter_verify_params: the given signer alone, else the authority,    *)
(* then SIGNER_KEYS in order; a failed fetch moves on to the next one.     *)

Tried(signer, authority) ==
    IF signer # None THEN {signer}
    ELSE {w \in Signers : IsTrusted(w, authority)}

TriedBefore(v, w, authority) ==
    /\ w # authority
    /\ \/ v = authority
       \/ \E j \in DOMAIN SIGNER_KEYS :
            /\ SIGNER_KEYS[j] = w
            /\ \E i \in 1..(j - 1) : SIGNER_KEYS[i] = v

\* The lookup may end with the PDA of w.
FindsPda(p, signer, authority, w) ==
    /\ w \in Tried(signer, authority)
    /\ pda[p][w] # None
    /\ \/ RpcFails
       \/ \A v \in Tried(signer, authority) :
            TriedBefore(v, w, authority) => pda[p][v] = None

\* The lookup may end without a PDA.
FindsNoPda(p, signer, authority) ==
    \/ RpcFails
    \/ \A w \in Tried(signer, authority) : pda[p][w] = None
=============================================================================
