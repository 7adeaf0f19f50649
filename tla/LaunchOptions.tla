---------------------------- MODULE LaunchOptions ----------------------------
(***************************************************************************)
(* What a launch asks for: the command line and the prompts' answers as    *)
(* sequences of tokens, the options they set over the defaults, the modes, *)
(* the options that give way to others, and the command line a relaunch is *)
(* given.                                                                  *)
(*                                                                         *)
(* A token is a string and is never taken apart: a numeral is one of       *)
(* Numerals as Windows would spell it.                                     *)
(***************************************************************************)
EXTENDS Integers, SequencesExt, TLC

CONSTANTS
    Numerals,    \* the numbers a token may spell
    Displays     \* how many displays there are

ASSUME LaunchAssumption == Numerals \subseteq Nat /\ Displays \in Nat

Digits == {ToString(n) : n \in Numerals}
NumberOf(token) == CHOOSE n \in Numerals : ToString(n) = token

-----------------------------------------------------------------------------
\* Options
Defaults ==
    [srcRateHint |-> 0, lock |-> TRUE, tint |-> FALSE, etw |-> TRUE, noJoin |-> FALSE,
     dejitter |-> TRUE, dejitterRequested |-> FALSE, fgPhase |-> FALSE, phaseKeep |-> FALSE,
     flipEx |-> FALSE, mark |-> FALSE, markFrames |-> 0, extraLagMs |-> 75, deferCopy |-> TRUE,
     wgc |-> FALSE, wgcDrop |-> TRUE, wgcCursor |-> TRUE, wgcOpen |-> TRUE, wgcScale |-> 0,
     copyEngine |-> TRUE]

WgcScaleNames == <<"bilinear", "bicubic", "lanczos">>

\* The flags that take no value, and the fields each sets.
Switch ==
       "-lock" :> [lock |-> TRUE]          @@ "-nolock" :> [lock |-> FALSE]
    @@ "-tint" :> [tint |-> TRUE]          @@ "-nojoin" :> [noJoin |-> TRUE]
    @@ "-etw" :> [etw |-> TRUE]            @@ "-noetw" :> [etw |-> FALSE]
    @@ "-dejit" :> [dejitter |-> TRUE, dejitterRequested |-> TRUE]
    @@ "-nodejit" :> [dejitter |-> FALSE, dejitterRequested |-> FALSE]
    @@ "-defercopy" :> [deferCopy |-> TRUE] @@ "-nodefercopy" :> [deferCopy |-> FALSE]
    @@ "-wgc" :> [wgc |-> TRUE]            @@ "-nocopyengine" :> [copyEngine |-> FALSE]
    @@ "-wgcdrop" :> [wgcDrop |-> TRUE]    @@ "-nowgcdrop" :> [wgcDrop |-> FALSE]
    @@ "-wgccursor" :> [wgcCursor |-> TRUE] @@ "-nowgccursor" :> [wgcCursor |-> FALSE]
    @@ "-wgcopen" :> [wgcOpen |-> TRUE]    @@ "-nowgcopen" :> [wgcOpen |-> FALSE]
    @@ "-fgphase" :> [fgPhase |-> TRUE]    @@ "-phasekeep" :> [phaseKeep |-> TRUE]
    @@ "-flipex" :> [flipEx |-> TRUE]

\* The flags that need a value: whether a value is taken, and what it sets.  A delay that is no
\* number reads as zero.
Valued ==
    LET lag(v) == IF v \in Digits THEN NumberOf(v) ELSE 0
    IN  "-src" :> [takes |-> [v \in STRING |-> v \in Digits /\ NumberOf(v) \in 1 .. 1000],
                   sets |-> [v \in STRING |-> [srcRateHint |-> NumberOf(v)]]]
     @@ "-lag" :> [takes |-> [v \in STRING |-> lag(v) <= 200],
                   sets |-> [v \in STRING |-> [extraLagMs |-> lag(v)]]]
     @@ "-wgcscale" :> [takes |-> [v \in STRING |-> v \in ToSet(WgcScaleNames)],
                        sets |-> [v \in STRING |->
                            [wgcScale |-> (CHOOSE i \in DOMAIN WgcScaleNames :
                                               WgcScaleNames[i] = v) - 1]]]

\* ApplyOption: the options once the token at i is applied, how many tokens that took, none if it
\* is not an option, and whether its value was wrong.
ApplyOption(tokens, i, o) ==
    LET t == tokens[i]
        v == IF i < Len(tokens) THEN tokens[i + 1] ELSE ""
        counted == v \in Digits
        applied(used, set, wrong) == [used |-> used, options |-> set @@ o, wrong |-> wrong]
    IN CASE t \in DOMAIN Switch -> applied(1, Switch[t], FALSE)
         [] t = "-mark" /\ counted -> applied(2, [mark |-> TRUE, markFrames |-> NumberOf(v)], FALSE)
         [] t = "-mark" /\ ~counted -> applied(1, [mark |-> TRUE], FALSE)
         [] t \in DOMAIN Valued /\ v # "" ->
                IF Valued[t].takes[v] THEN applied(2, Valued[t].sets[v], FALSE)
                ELSE applied(2, o, TRUE)
         [] OTHER -> applied(0, o, FALSE)

-----------------------------------------------------------------------------
\* Modes
Mode(kind) == [kind |-> kind, compositor |-> "nearest", vsync |-> FALSE, d3d11 |-> FALSE]

\* ParseMode; the empty mode is b:vsync.  Only the blend has a path of its own to the display.
ParseMode(mode) ==
    LET temporal(c, vsync, d3d11) ==
            [kind |-> "Temporal", compositor |-> c, vsync |-> vsync, d3d11 |-> d3d11]
        timed(letter) == {letter \o ":" \o t : t \in Digits \ {"0"}}
    IN CASE mode \in {"", "b", "b:vsync"} -> temporal("blend", TRUE, TRUE)
         [] mode = "b:dwm" -> temporal("blend", TRUE, FALSE)
         [] mode \in {"t", "t:dwm"} -> temporal("nearest", TRUE, FALSE)
         [] mode \in {"o", "o:vsync"} -> temporal("interp", TRUE, FALSE)
         [] mode \in timed("t") -> temporal("nearest", FALSE, FALSE)
         [] mode \in timed("b") -> temporal("blend", FALSE, FALSE)
         [] mode \in timed("o") -> temporal("interp", FALSE, FALSE)
         [] mode = "vsync" -> Mode("Vsync")
         [] mode = "diag" -> Mode("Diag")
         [] mode = "diag:vsync" -> [Mode("Diag") EXCEPT !.vsync = TRUE]
         [] mode \in Digits \ {"0"} -> Mode("Timer")
         [] OTHER -> Mode("Invalid")

-----------------------------------------------------------------------------
\* The command line

\* ParseCommandLine: what one reads before the next token.  Tokens an earlier one took as its value
\* are skipped.
Line ==
    [source |-> -1, target |-> -1, mode |-> "", relaunched |-> FALSE, options |-> Defaults,
     refused |-> FALSE, skip |-> 0]

ReadOption(tokens, i, c) ==
    LET applied == ApplyOption(tokens, i, c.options)
    IN [c EXCEPT !.options = applied.options,
                 !.refused = @ \/ applied.wrong \/ applied.used = 0,
                 !.skip = IF applied.used = 0 THEN 0 ELSE applied.used - 1]

ReadToken(args, i, c) ==
    LET t == args[i]
        v == IF i < Len(args) THEN args[i + 1] ELSE ""
        index == IF v \in Digits THEN NumberOf(v) ELSE -1
        wrong == c.refused \/ v \notin Digits    \* an index that is no number
    IN CASE c.skip > 0 -> [c EXCEPT !.skip = @ - 1]
         [] c.skip = 0 /\ t = "-source" /\ v # "" ->
                [c EXCEPT !.source = index, !.refused = wrong, !.skip = 1]
         [] c.skip = 0 /\ t = "-target" /\ v # "" ->
                [c EXCEPT !.target = index, !.refused = wrong, !.skip = 1]
         [] c.skip = 0 /\ t = "-framerate" /\ v # "" -> [c EXCEPT !.mode = v, !.skip = 1]
         [] c.skip = 0 /\ t = "-relaunched" -> [c EXCEPT !.relaunched = TRUE]
         [] OTHER -> ReadOption(args, i, c)

ParseCommandLine(args) == FoldLeftDomain(LAMBDA c, i : ReadToken(args, i, c), Line, args)

IsRelaunch(args) == ParseCommandLine(args).relaunched

\* CheckCommandLine: whether a launch can go without the prompts.
Usable(args) ==
    LET c == ParseCommandLine(args)
    IN /\ args # <<>> /\ ~c.refused
       /\ {c.source, c.target} \subseteq 0 .. Displays - 1 /\ c.source # c.target
       /\ ParseMode(c.mode).kind # "Invalid"

\* CheckDisplayAnswer: an answer at a prompt names a display that is not the other one.
DisplayAnswer(answer, other) ==
    answer \in Digits /\ NumberOf(answer) \in (0 .. Displays - 1) \ {other}

\* ParsePromptAnswer: a mode or none, then options.  What is only for the command line is refused.
PromptLine(mode, tokens) ==
    FoldLeftDomain(LAMBDA c, i :
        IF c.skip > 0 THEN [c EXCEPT !.skip = @ - 1] ELSE ReadOption(tokens, i, c),
        [Line EXCEPT !.mode = mode, !.refused = ParseMode(mode).kind = "Invalid"], tokens)

-----------------------------------------------------------------------------
\* ResolveDependencies: late-batch correction needs flip timing, the flip join and the comb lock,
\* and gives way unless it was typed.
ResolveDependencies(o) ==
    IF o.dejitter /\ ~o.dejitterRequested /\ (~o.etw \/ o.noJoin \/ ~o.lock)
    THEN [o EXCEPT !.dejitter = FALSE] ELSE o

\* ResolveDeferCopy: what reads every frame needs every frame copied.
ResolveDeferCopy(o) ==
    IF o.fgPhase \/ o.phaseKeep THEN [o EXCEPT !.deferCopy = FALSE] ELSE o

\* RunRelay drops what the mode cannot serve.
FitToMode(o, mode) ==
    [o EXCEPT !.flipEx = @ /\ ParseMode(mode).kind = "Temporal" /\ ~ParseMode(mode).d3d11,
              !.wgc = @ /\ ParseMode(mode).d3d11]

Resolved(o, mode) == FitToMode(ResolveDeferCopy(ResolveDependencies(o)), mode)

-----------------------------------------------------------------------------
\* The relaunch's command line
When(differs, tokens) == IF differs THEN tokens ELSE <<>>

\* Mutant: a typed -dejit is written like any other option, where it differs from the default.
DejitterTokensUntyped(o) == When(~o.dejitter, <<"-nodejit">>)

\* A typed -dejit stays typed, and is refused again as loudly.
DejitterTokens(o) ==
    IF o.dejitterRequested THEN <<"-dejit">> ELSE When(~o.dejitter, <<"-nodejit">>)

\* FormatOptions: only what differs from a default.
FormatOptions(o) ==
    When(o.srcRateHint # Defaults.srcRateHint, <<"-src", ToString(o.srcRateHint)>>)
    \o When(~o.lock, <<"-nolock">>) \o When(~o.etw, <<"-noetw">>) \o When(o.noJoin, <<"-nojoin">>)
    \o DejitterTokens(o)
    \o When(o.extraLagMs # Defaults.extraLagMs, <<"-lag", ToString(o.extraLagMs)>>)
    \o When(~o.deferCopy, <<"-nodefercopy">>) \o When(o.wgc, <<"-wgc">>)
    \o When(~o.wgcDrop, <<"-nowgcdrop">>) \o When(~o.wgcCursor, <<"-nowgccursor">>)
    \o When(~o.wgcOpen, <<"-nowgcopen">>)
    \o When(o.wgcScale # 0, <<"-wgcscale", WgcScaleNames[o.wgcScale + 1]>>)
    \o When(~o.copyEngine, <<"-nocopyengine">>)
    \o When(o.mark, <<"-mark">> \o When(o.markFrames > 0, <<ToString(o.markFrames)>>))
    \o When(o.tint, <<"-tint">>) \o When(o.fgPhase, <<"-fgphase">>)
    \o When(o.phaseKeep, <<"-phasekeep">>) \o When(o.flipEx, <<"-flipex">>)

RelaunchArguments(source, target, mode, o) ==
    <<"-source", ToString(source), "-target", ToString(target),
      "-framerate", IF mode = "" THEN "b:vsync" ELSE mode>>
    \o FormatOptions(o) \o <<"-relaunched">>
==============================================================================
