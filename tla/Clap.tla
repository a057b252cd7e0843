---------------------------------- MODULE Clap ----------------------------------
(***************************************************************************)
(* The command line parser (clap.h, clap.cpp): options by their short and  *)
(* long names, flags, counters, positional arguments and defaults, read    *)
(* from args, of which the first is the program's name.  A value is        *)
(* <<type, what it is>>; an error is what it is about.  Printing help is   *)
(* left out.                                                               *)
(***************************************************************************)
EXTENDS Parse, TLC

CONSTANT S32    \* the type of an integer argument

NoArg == [name |-> ""]
Arg == [short_name |-> "", long_name |-> "", default_val |-> "", arg_type |-> "STRING", action |-> "STORE",
        is_required |-> FALSE, is_positional |-> FALSE]
clap_arg_option_opt(name, opts) == [is_positional |-> FALSE] @@ opts @@ [name |-> name] @@ Arg
clap_arg_positional_opt(name, opts) == [is_positional |-> TRUE, action |-> "STORE"] @@ opts @@ [name |-> name] @@ Arg
clap_arg_flag_opt(name, opts) ==
    [is_positional |-> FALSE, is_required |-> FALSE, arg_type |-> "BOOL"] @@ opts @@ [action |-> "SET_TRUE", name |-> name] @@ Arg

FirstOf(parser, Does(_)) ==
    LET those == SelectSeq(parser.arguments, Does) IN IF those = <<>> THEN NoArg ELSE those[1]
clap_find_arg_by_short(parser, short_name) == FirstOf(parser, LAMBDA a : a.short_name = short_name)
clap_find_arg_by_long(parser, long_name) == FirstOf(parser, LAMBDA a : a.long_name = long_name)
NthPositional(parser, n) ==
    LET those == SelectSeq(parser.arguments, LAMBDA a : a.is_positional) IN IF n < Len(those) THEN those[n + 1] ELSE NoArg

(* strtod takes what begins with a digit.                                  *)
strtod(text) == ascii_is_digit(Bytes(text)[1])

(* The value, or nothing.  What follows a number is not looked at.         *)
Invalid == <<>>
clap_parse_value(text, type) ==
    LET Read(n) == IF n.Status = "SUCCESS" THEN <<type, n.Value>> ELSE Invalid
    IN  CASE type = "STRING" -> <<type, text>>
          [] type = "INT" -> Read(parse_int(Bytes(text) \o <<0>>, Buffer(Bytes(text)), S32, 10, parse_int_options))
          [] type = "FLOAT" /\ text # "" /\ strtod(text) -> <<type, text>>
          [] type = "BOOL" /\ text \in {"true", "1", "yes", "on"} -> <<type, TRUE>>
          [] type = "BOOL" /\ text \in {"false", "0", "no", "off"} -> <<type, FALSE>>
          [] OTHER -> Invalid
-----------------------------------------------------------------------------
(* Between two arguments: which is next, how many positional ones there    *)
(* were, the values so far, and whether it has ended and why.              *)
Start == [i |-> 2, positional_index |-> 0, values |-> <<>>, success |-> TRUE, error |-> ""]
Fails(st, error) == [st EXCEPT !.success = FALSE, !.error = error]
Sets(st, name, value) == [st EXCEPT !.values = (name :> value) @@ @]
SetsParsed(st, arg, text, type) ==
    LET Read(value) == IF value = Invalid THEN Fails(st, "Invalid value") ELSE Sets(st, arg.name, value)
    IN  Read(clap_parse_value(text, type))

After_(text, n) == SubSeq(text, n + 1, Len(text))
Next_(st) == [st EXCEPT !.i = @ + 1]

TakesPositional(parser, st, text) ==
    LET arg == NthPositional(parser, st.positional_index)
    IN  IF arg = NoArg THEN Fails(st, "Unexpected positional argument")
        ELSE [SetsParsed(st, arg, text, arg.arg_type) EXCEPT !.positional_index = @ + 1]
RECURSIVE TakesRest(_, _, _)
TakesRest(parser, args, st) ==
    IF st.i > Len(args) \/ ~st.success THEN st
    ELSE TakesRest(parser, args, Next_(TakesPositional(parser, st, args[st.i])))

(* The value of an option that had none with it is the next argument.      *)
TakesValue(args, st, arg) ==
    IF st.i + 1 > Len(args) THEN Fails(st, "Option requires a value")
    ELSE SetsParsed(Next_(st), arg, args[st.i + 1], arg.arg_type)

Counted(st, name) ==
    IF name \in DOMAIN st.values /\ st.values[name][1] = "INT" THEN st.values[name][2] + 1 ELSE 1

(* A cluster of short options: flags, until one takes what is left of it.  *)
RECURSIVE TakesShorts(_, _, _, _)
TakesShorts(parser, args, st, shorts) ==
    LET arg == clap_find_arg_by_short(parser, SubSeq(shorts, 1, 1))
        rest == After_(shorts, 1)
        On(value) == TakesShorts(parser, args, Sets(st, arg.name, value), rest)
    IN  IF shorts = "" THEN st
        ELSE IF arg = NoArg THEN Fails(st, "Unknown option")
        ELSE CASE arg.action = "SET_TRUE" -> On(<<"BOOL", TRUE>>)
               [] arg.action = "SET_FALSE" -> On(<<"BOOL", FALSE>>)
               [] arg.action = "COUNT" -> On(<<"INT", Counted(st, arg.name)>>)
               [] arg.action = "STORE" -> IF rest = "" THEN TakesValue(args, st, arg)
                                          ELSE SetsParsed(st, arg, rest, arg.arg_type)

(* --name, --name=value and --no-name.                                     *)
TakesFound(args, st, arg, value) ==
    IF arg = NoArg THEN Fails(st, "Unknown option")
    ELSE IF arg.action = "SET_TRUE"
    THEN IF value = "" THEN Sets(st, arg.name, <<"BOOL", TRUE>>) ELSE SetsParsed(st, arg, value, "BOOL")
    ELSE IF arg.action = "SET_FALSE" THEN Sets(st, arg.name, <<"BOOL", FALSE>>)
    ELSE IF value = "" THEN TakesValue(args, st, arg) ELSE SetsParsed(st, arg, value, arg.arg_type)
EqualsPos(text) == LET hits == {k \in 1..Len(text) : SubSeq(text, k, k) = "="} IN IF hits = {} THEN 0 ELSE Min(hits)
TakesLong(parser, args, st, text) ==
    LET at == EqualsPos(text)
        name == IF at > 0 THEN SubSeq(text, 1, at - 1) ELSE text
        value == IF at > 0 THEN After_(text, at) ELSE ""
        negated == IF Len(name) > 3 /\ SubSeq(name, 1, 3) = "no-" THEN clap_find_arg_by_long(parser, After_(name, 3)) ELSE NoArg
    IN  IF negated # NoArg THEN Sets(st, negated.name, <<"BOOL", FALSE>>)
        ELSE TakesFound(args, st, clap_find_arg_by_long(parser, name), value)

RECURSIVE TakesAll(_, _, _)
TakesAll(parser, args, st) ==
    LET arg == args[st.i]
        On(after) == TakesAll(parser, args, Next_(after))
    IN  IF st.i > Len(args) \/ ~st.success THEN st
        ELSE IF arg = "" THEN On(st)
        ELSE IF parser.auto_help /\ arg \in {"--help", "-h"} THEN Fails(st, "")
        ELSE IF parser.auto_version /\ arg \in {"--version", "-v"} THEN Fails(st, "")
        ELSE IF arg = "--" THEN TakesRest(parser, args, Next_(st))
        ELSE IF SubSeq(arg, 1, 1) # "-" THEN On(TakesPositional(parser, st, arg))
        ELSE IF Len(arg) = 1 THEN Fails(st, "Invalid option")
        ELSE IF SubSeq(arg, 2, 2) = "-" THEN On(TakesLong(parser, args, st, After_(arg, 2)))
        ELSE On(TakesShorts(parser, args, st, After_(arg, 1)))

(* What was not given: an error, its default, or nothing.                  *)
Completed(st, arg) ==
    LET Default(value) == IF value = Invalid THEN st ELSE Sets(st, arg.name, value)
    IN  IF ~st.success \/ arg.name \in DOMAIN st.values THEN st
        ELSE IF arg.is_required THEN Fails(st, "Missing required argument")
        ELSE IF arg.default_val = "" THEN st ELSE Default(clap_parse_value(arg.default_val, arg.arg_type))

clap_parse_args(parser, args) ==
    LET Result(st) == [values |-> st.values, success |-> st.success, error |-> st.error]
    IN  Result(FoldLeft(Completed, TakesAll(parser, args, Start), parser.arguments))

Got(result, key, type, otherwise) ==
    IF key \in DOMAIN result.values /\ result.values[key][1] = type THEN result.values[key][2] ELSE otherwise
clap_get_string(result, key) == Got(result, key, "STRING", "")
clap_get_int(result, key) == Got(result, key, "INT", 0)
clap_get_float(result, key) == Got(result, key, "FLOAT", "0")
clap_get_bool(result, key) == Got(result, key, "BOOL", FALSE)
clap_has_arg(result, key) == key \in DOMAIN result.values
-----------------------------------------------------------------------------
(* What is meant by a command line: a sequence of [name, value, spelled],  *)
(* spelled one way or another; a count has the value <<"COUNT">>.  Of what *)
(* is meant twice the later holds, counts add up, and what is not meant    *)
(* has its default or is an error if it may not be missing.                *)
Meant(values, m) ==
    (m.name :> IF m.value # <<"COUNT">> THEN m.value
               ELSE <<"INT", IF m.name \in DOMAIN values THEN values[m.name][2] + 1 ELSE 1>>) @@ values
Defaults(parser) ==
    LET of == {a \in ToSet(parser.arguments) : a.default_val # ""}
    IN  [name \in {a.name : a \in of} |-> (CHOOSE a \in of : a.name = name).default_val]

CommandLinesAgree(parser, meant) ==
    LET said == FoldLeft(Meant, <<>>, meant)
        missing == {a \in ToSet(parser.arguments) : a.is_required /\ a.name \notin DOMAIN said}
    IN  \A r \in {clap_parse_args(parser, <<"program">> \o FlattenSeq([k \in DOMAIN meant |-> meant[k].spelled]))} :
        IF missing # {} THEN ~r.success /\ r.error # ""
        ELSE /\ r.success /\ r.error = ""
             /\ DOMAIN r.values = DOMAIN said \cup DOMAIN Defaults(parser)
             /\ \A name \in DOMAIN said :
                   /\ clap_has_arg(r, name) /\ r.values[name][1] = said[name][1]
                   /\ said[name][2] = CASE said[name][1] = "STRING" -> clap_get_string(r, name)
                                        [] said[name][1] = "INT" -> clap_get_int(r, name)
                                        [] said[name][1] = "FLOAT" -> clap_get_float(r, name)
                                        [] said[name][1] = "BOOL" -> clap_get_bool(r, name)
                   /\ \E a \in ToSet(parser.arguments) : a.name = name /\ r.values[name][1] \in {a.arg_type, "BOOL", "INT"}
             /\ \A name \in DOMAIN Defaults(parser) \ DOMAIN said : clap_get_string(r, name) = Defaults(parser)[name]
=============================================================================
