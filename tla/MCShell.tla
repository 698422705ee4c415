------------------------------- MODULE MCShell -------------------------------
(* Instances of Shell for TLC: two batch files that call each other, two     *)
(* variables of which one begins like the other, three programs.             *)
EXTENDS Shell

Command(op) == [Nop EXCEPT !.op = op]
Call(f)     == [Nop EXCEPT !.op = "batch", !.file = f]
Set(n, v)   == [Nop EXCEPT !.op = "set", !.name = n, !.value = v]
Echo(on)    == [Nop EXCEPT !.op = "echo", !.value = IF on THEN <<1>> ELSE <<>>]
Setver(p, ver) == [Nop EXCEPT !.op = "setver", !.file = p, !.value = <<ver>>]

P  == <<2>>
PA == <<2, 3>>
X  == <<4>>

MCBatch ==
  [one |-> <<Echo(FALSE), Call("two"), Command("empty"), Command("copy"), Command("run")>>,
   two |-> <<Command("type"), Call("one"), Command("say")>>]
MCVariables == {P, PA}
MCPrograms  == {"a", "b", "c"}
MCInherited == {<<>>, PA \o <<EQ>> \o X}
MCValues    == {<<>>, X, X \o X \o X}
MCTyped ==
  {Command(op) : op \in {"rem", "say", "type", "copy", "run", "exit"}}
    \cup {Call(f) : f \in DOMAIN MCBatch}
    \cup {Echo(on) : on \in BOOLEAN}
    \cup {Set(n, v) : n \in MCVariables, v \in MCValues}
    \cup {Setver(p, ver) : p \in MCPrograms, ver \in {0, 50}} \cup {Setver("a", 60)}
=============================================================================
