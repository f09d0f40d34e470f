----------------------------- MODULE ExportModules -----------------------------
(***************************************************************************)
(* Laboratory 3, part 2: md1 exports md1_data and md1_proc(), md2 and md3  *)
(* use them.  `make load` and `make remove`, of several people at the same *)
(* time, load and unload the modules, each stopping at its first failure.  *)
(*                                                                         *)
(* The kernel's loader is modelled from what the code relies on: it waits  *)
(* for an init that is running, a symbol is found only in a module that is *)
(* live, its user holds that module until it is out itself, and a module   *)
(* whose init fails is taken out again.                                    *)
(***************************************************************************)
EXTENDS Sequences, Naturals

CONSTANT Admins   \* those who call make

VARIABLES
  md,    \* each module: "out", "init", "live" or "exit"
  make,  \* the target each admin makes, and its command
  asks,  \* has the command been given to the kernel?
  muddle \* were two targets made at once, or has a command failed by itself?

exportVars == <<md, make, asks, muddle>>

Mds == {"md1", "md2", "md3"}

\* The modules whose symbols init uses through md.h.
Imports(m) == IF m = "md1" THEN {} ELSE {"md1"}

\* Seeded fault of Accepts: md3 returns 0 as the others do.
AcceptsAll(m) == TRUE

\* What init returns; md3 refuses to be loaded, after it has run.
Accepts(m) == m # "md3"

\* insmod and rmmod of the two targets, in their order.
Commands(target) ==
  CASE target = "load"   -> <<"md1", "md2", "md3">>
    [] target = "remove" -> <<"md2", "md1">>

ExportInit ==
  /\ md = [m \in Mds |-> "out"]
  /\ make = [a \in Admins |-> <<"no", 0>>]
  /\ asks = [a \in Admins |-> FALSE]
  /\ muddle = FALSE

Makes(a) == make[a] # <<"no", 0>>

Starts(a, target) ==
  /\ ~Makes(a)
  /\ make' = [make EXCEPT ![a] = <<target, 1>>]
  /\ muddle' = (muddle \/ \E b \in Admins : Makes(b))
  /\ UNCHANGED <<md, asks>>

\* Every module is in a state of its life, and every admin at a command.
ExportTypeOK ==
  /\ md \in [Mds -> {"out", "init", "live", "exit"}]
  /\ make \in [Admins -> {<<"no", 0>>} \cup {<<"load", n>> : n \in 1 .. 3}
                                        \cup {<<"remove", n>> : n \in 1 .. 2}]
  /\ asks \in [Admins -> BOOLEAN]
  /\ muddle \in BOOLEAN

\* The module of the command that is next.
Named(a) == Commands(make[a][1])[make[a][2]]

\* The command has gone well, and make takes the next one.
Done(a) ==
  make' = [make EXCEPT ![a] = IF @[2] = Len(Commands(@[1])) THEN <<"no", 0>>
                                                            ELSE <<@[1], @[2] + 1>>]
Stops(a) == make' = [make EXCEPT ![a] = <<"no", 0>>]

-------------------------------------------------------------------------------

\* sudo, or a want of memory: the command fails and make stops.
CommandFails(a) ==
  /\ Makes(a) /\ ~asks[a]
  /\ Stops(a)
  /\ muddle' = TRUE
  /\ UNCHANGED <<md, asks>>

\* insmod: the module is not there and its symbols are, and init begins.
InsmodMd(a) ==
  LET m == Named(a)
  IN  /\ make[a][1] = "load" /\ ~asks[a]
      /\ UNCHANGED muddle
      /\ \A n \in Imports(m) \cup {m} : md[n] # "init"
      /\ IF md[m] = "out" /\ \A n \in Imports(m) : md[n] = "live"
           THEN /\ md' = [md EXCEPT ![m] = "init"]
                /\ asks' = [asks EXCEPT ![a] = TRUE]
                /\ UNCHANGED make
           ELSE Stops(a) /\ UNCHANGED <<md, asks>>

\* init returns: 0, or the -1 of md3.
InitMd(a) ==
  LET m == Named(a)
  IN  /\ make[a][1] = "load" /\ asks[a]
      /\ UNCHANGED muddle
      /\ asks' = [asks EXCEPT ![a] = FALSE]
      /\ IF Accepts(m) THEN md' = [md EXCEPT ![m] = "live"] /\ Done(a)
                       ELSE md' = [md EXCEPT ![m] = "out"] /\ Stops(a)

\* rmmod: the module is live and nobody uses it, and exit begins.
RmmodMd(a) ==
  LET m == Named(a)
  IN  /\ make[a][1] = "remove" /\ ~asks[a]
      /\ UNCHANGED muddle
      /\ IF md[m] = "live" /\ \A n \in Mds : m \in Imports(n) => md[n] = "out"
           THEN /\ md' = [md EXCEPT ![m] = "exit"]
                /\ asks' = [asks EXCEPT ![a] = TRUE]
                /\ UNCHANGED make
           ELSE Stops(a) /\ UNCHANGED <<md, asks>>

ExitMd(a) ==
  /\ make[a][1] = "remove" /\ asks[a]
  /\ asks' = [asks EXCEPT ![a] = FALSE]
  /\ md' = [md EXCEPT ![Named(a)] = "out"]
  /\ Done(a)
  /\ UNCHANGED muddle

ExportNext ==
  \E a \in Admins :
    \/ \E target \in {"load", "remove"} : Starts(a, target)
    \/ CommandFails(a) \/ InsmodMd(a) \/ InitMd(a) \/ RmmodMd(a) \/ ExitMd(a)

ExportSpec == ExportInit /\ [][ExportNext]_exportVars

-------------------------------------------------------------------------------
(* Properties *)

\* `make load` stops at md1 when it is there, and `make remove` at md2 when it is
\* not: once md1 is live alone, neither target changes anything any more.  Made
\* one after the other, in any order and as often as one likes, the targets never
\* leave that, but both modules or none.  It takes md3, which `make remove` does
\* not know, to refuse its load: it would keep md1 from being removed.
BothOrNone ==
  ~muddle /\ (\A a \in Admins : ~Makes(a)) =>
    /\ md["md1"] \in {"live", "out"}
    /\ md["md2"] = md["md1"]
    /\ md["md3"] = "out"

===============================================================================
