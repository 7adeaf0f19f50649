------------------------------ MODULE MCSession ------------------------------
EXTENDS Session

Displayed == <<"-source", "0", "-target", "1">>
InMode(mode) == <<"-framerate", mode>>

\* The options that bear on one another, and the others one at a time.
Related == {"-dejit", "-nodejit", "-noetw", "-nojoin", "-nolock", "-fgphase", "-phasekeep"}
Singly == DOMAIN Switch \union {"-mark", "-lag"}
Singles ==
    {<<o>> : o \in Singly}
    \union {<<"-mark", "3">>, <<"-src", "60">>, <<"-lag", "0">>, <<"-lag", "no">>,
            <<"-wgcscale", "lanczos">>, <<"-mark", "-src", "60", "-tint">>}
Pairs == {<<a, b>> : a, b \in Related} \union {<<"-wgc", o>> : o \in Singly}
Triples == {<<a, b, c>> : a \in {"-dejit", "-nodejit"}, b \in {"-noetw", "-etw", "-dejit"},
                          c \in {"-nojoin", "-nolock", "-lock"}}

Modes == {"b", "b:dwm", "b:60", "t:dwm", "o:60", "vsync", "diag", "diag:vsync", "60"}
Wrong ==
    {<<>>, <<"-wgc">>, <<"-source", "0", "-target", "0">>, <<"-source", "0", "-target", "3">>,
     <<"-source", "no", "-target", "1">>, Displayed \o InMode("t:vsync"),
     Displayed \o <<"-lag", "300">>, Displayed \o <<"-wgcscale", "no">>, Displayed \o <<"no">>}

MCCommandLines ==
    {Displayed \o o : o \in {<<>>} \union Singles \union Pairs \union Triples}
    \union {Displayed \o InMode(m) \o o : m \in Modes, o \in {<<>>, <<"-flipex", "-wgc">>, <<"-nolock">>}}
    \union Wrong
MCCalmLines == {Displayed \o <<"-wgc">>}

MCPromptAnswers ==
    {[mode |-> "", tokens |-> <<>>], [mode |-> "t", tokens |-> <<"-dejit", "-noetw">>],
     [mode |-> "b:no", tokens |-> <<>>], [mode |-> "", tokens |-> <<"-relaunched">>]}
==============================================================================
