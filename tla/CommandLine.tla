---------------------------- MODULE CommandLine ----------------------------
(***************************************************************************)
(* The loop of main over argv (src/main.cpp): one action for each way an   *)
(* iteration may go.  An argument is a value that the conversions below    *)
(* tell apart; argv[1] is the target, as in the code.                      *)
(***************************************************************************)
EXTENDS BlockRules, Integers

CONSTANTS
    Addresses,  \* parseIpv4: the texts it takes, and the address of each
    Ports,      \* parsePort: the texts it takes, and the port of each
    Counts      \* std::stoul: the texts it takes, and the number of each

VARIABLES
    argv,         \* the arguments behind the program's name
    i,            \* the next one, 0 before the loop
    rules,        \* the BlockRules to be given to the engine
    num_workers,
    exit          \* "none" while the process runs, then how it ended

argVars == <<argv, i, rules, num_workers>>

Live == argv # <<>> /\ argv[1] = "--live"

Protocol(text) == CASE text = "tcp" -> "TCP" [] text = "udp" -> "UDP" [] OTHER -> "UNKNOWN"

\* Before the loop: without a target, or an interface, there is nothing to do.
Usage ==
    /\ exit = "none" /\ i = 0
    /\ argv = <<>> \/ (Live /\ Len(argv) < 2)
    /\ exit' = "failed"
    /\ UNCHANGED <<argv, i, rules, num_workers>>

Begin ==
    /\ exit = "none" /\ i = 0
    /\ argv # <<>> /\ (Live => Len(argv) >= 2)
    /\ i' = IF Live THEN 3 ELSE 2
    /\ UNCHANGED <<argv, rules, num_workers, exit>>

\* argv[i] is this option and has its values behind it.
IsOption(option, values) ==
    /\ exit = "none" /\ i \in DOMAIN argv
    /\ argv[i] = option
    /\ i + values \in DOMAIN argv

\* Mutant: an invalid address is not skipped but looked at again.
BlockIp_Unskipped ==
    /\ IsOption("--block-ip", 1)
    /\ i' = IF argv[i + 1] \in DOMAIN Addresses THEN i + 2 ELSE i + 1
    /\ rules' = IF argv[i + 1] \in DOMAIN Addresses
                THEN addBlockedIp(rules, Addresses[argv[i + 1]]) ELSE rules
    /\ UNCHANGED <<argv, num_workers, exit>>

BlockIp ==
    /\ IsOption("--block-ip", 1)
    /\ i' = i + 2
    /\ rules' = IF argv[i + 1] \in DOMAIN Addresses
                THEN addBlockedIp(rules, Addresses[argv[i + 1]]) ELSE rules
    /\ UNCHANGED <<argv, num_workers, exit>>

BlockDomain ==
    /\ IsOption("--block-domain", 1)
    /\ i' = i + 2
    /\ rules' = addBlockedDomain(rules, argv[i + 1])
    /\ UNCHANGED <<argv, num_workers, exit>>

BlockPort ==
    /\ IsOption("--block-port", 2)
    /\ i' = i + 3
    /\ rules' = IF argv[i + 2] \in DOMAIN Ports
                THEN addBlockedPort(rules, Protocol(argv[i + 1]), Ports[argv[i + 2]]) ELSE rules
    /\ UNCHANGED <<argv, num_workers, exit>>

\* stoul throws on what is no number, and nothing catches it.
SetWorkers ==
    /\ IsOption("--workers", 1)
    /\ IF argv[i + 1] \in DOMAIN Counts
       THEN /\ i' = i + 2
            /\ num_workers' = IF Counts[argv[i + 1]] = 0 THEN 1 ELSE Counts[argv[i + 1]]
            /\ UNCHANGED exit
       ELSE exit' = "aborted" /\ UNCHANGED <<i, num_workers>>
    /\ UNCHANGED <<argv, rules>>

\* The options, each with how many values it takes.
Known == {<<"--block-ip", 1>>, <<"--block-domain", 1>>, <<"--block-port", 2>>, <<"--workers", 1>>}

\* An option that is not known or lacks a value.
UnknownArgument ==
    /\ exit = "none" /\ i \in DOMAIN argv
    /\ ~\E o \in Known : IsOption(o[1], o[2])
    /\ exit' = "failed"
    /\ UNCHANGED <<argv, i, rules, num_workers>>

ArgStep ==
    \/ Usage \/ Begin \/ BlockIp \/ BlockDomain \/ BlockPort \/ SetWorkers \/ UnknownArgument

ArgInit == i = 0 /\ rules = NoRules /\ num_workers = 1 /\ exit = "none"

ArgsDone == exit = "none" /\ i > Len(argv)
=============================================================================
