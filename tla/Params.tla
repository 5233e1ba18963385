------------------------------- MODULE Params -------------------------------
(***************************************************************************)
(* parse_cmdline_args (common_params.c) from the arguments getopt_long     *)
(* hands out, [opt, arg], to the configuration.  A device name is          *)
(* [name, len]; if_nametoindex and getopt_long are external.  The options  *)
(* that only copy their argument (--filename, --progsec, -L and -R) share  *)
(* the field `text`; the argument is taken to fit the array it goes to.    *)
(***************************************************************************)
EXTENDS Integers, SequencesExt

IfNameSize == 16

\* if_nametoindex: the devices there are.
Index == [eth0 |-> 1, eth1 |-> 2]
IfNameToIndex(name) == IF name \in DOMAIN Index THEN Index[name] ELSE 0

\* What xdp_loader's main starts from; `exit` is EXIT_FAIL_OPTION.
Default == [modes |-> {"drv"}, noexist |-> TRUE, ifname |-> "", ifindex |-> -1,
            redirect |-> "", redirect_ifindex |-> 0, do_unload |-> FALSE, verbose |-> TRUE,
            text |-> [filename |-> "syncookie.o", progsec |-> "", L |-> "", R |-> ""], exit |-> FALSE]

Error(cfg) == [cfg EXCEPT !.exit = TRUE]

\* -d and -r: the name is copied before it is looked up.
Dev(cfg, arg) ==
    LET named == [cfg EXCEPT !.ifname = arg.name, !.ifindex = IfNameToIndex(arg.name)]
    IN IF arg.len >= IfNameSize THEN Error(cfg)
       ELSE IF named.ifindex = 0 THEN Error(named) ELSE named
Redirect(cfg, arg) ==
    LET named == [cfg EXCEPT !.redirect = arg.name, !.redirect_ifindex = IfNameToIndex(arg.name)]
    IN IF arg.len >= IfNameSize THEN Error(cfg)
       ELSE IF named.redirect_ifindex = 0 THEN Error(named) ELSE named

\* The faulty form of SetMode below: the mode set before stays.
SetMode_Adds(cfg, modes) == [cfg EXCEPT !.modes = @ \cup modes]

\* -A, -S, -N and --offload-mode.
SetMode(cfg, modes) == [cfg EXCEPT !.modes = modes]

\* The switch; after an error the process is gone.
Option(cfg, o) ==
    IF cfg.exit THEN cfg
    ELSE CASE o.opt = "d" -> Dev(cfg, o.arg)
           [] o.opt = "r" -> Redirect(cfg, o.arg)
           [] o.opt = "A" -> SetMode(cfg, {})
           [] o.opt = "S" -> SetMode(cfg, {"skb"})
           [] o.opt = "N" -> SetMode(cfg, {"drv"})
           [] o.opt = "offload" -> SetMode(cfg, {"hw"})
           [] o.opt = "F" -> [cfg EXCEPT !.noexist = FALSE]
           [] o.opt = "U" -> [cfg EXCEPT !.do_unload = TRUE]
           [] o.opt = "q" -> [cfg EXCEPT !.verbose = FALSE]
           [] o.opt \in DOMAIN cfg.text -> [cfg EXCEPT !.text[o.opt] = o.arg.name]
           [] o.opt \in {"h", "?"} -> Error(cfg)

ParseCmdlineArgs(args) == FoldLeft(Option, Default, args)

(***************************************************************************)
(* Reference: the last option of a kind decides, wherever it stands among  *)
(* the others; the index is that of the name; and nothing is run when an   *)
(* argument was wrong, not even with right ones after it.                  *)
(***************************************************************************)
ParamsExact(args, cfg) ==
    LET LastOf(opts) == SelectLastInSeq(args, LAMBDA o : o.opt \in opts)
        mode == LastOf({"A", "S", "N", "offload"})
        Wrong(o) == \/ o.opt \in {"h", "?"}
                    \/ o.opt \in {"d", "r"} /\ (o.arg.len >= IfNameSize \/ IfNameToIndex(o.arg.name) = 0)
        sets == [A |-> {}, S |-> {"skb"}, N |-> {"drv"}, offload |-> {"hw"}]
    IN /\ cfg.exit = \E i \in DOMAIN args : Wrong(args[i])
       /\ ~cfg.exit =>
            /\ cfg.modes = IF mode = 0 THEN {"drv"} ELSE sets[args[mode].opt]
            /\ cfg.noexist = (LastOf({"F"}) = 0) /\ cfg.do_unload = (LastOf({"U"}) # 0)
            /\ \A t \in DOMAIN Default.text :
                  cfg.text[t] = IF LastOf({t}) = 0 THEN Default.text[t] ELSE args[LastOf({t})].arg.name
            /\ cfg.ifname = IF LastOf({"d"}) = 0 THEN "" ELSE args[LastOf({"d"})].arg.name
            /\ cfg.ifindex = IF LastOf({"d"}) = 0 THEN -1 ELSE IfNameToIndex(cfg.ifname)

=============================================================================
