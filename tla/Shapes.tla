-------------------------------- MODULE Shapes -------------------------------
\* The shapes of the right-hand side of a grammar's rule.
EXTENDS Naturals, Sequences

Sym(s) == [kind |-> "sym", name |-> s]
OneOf(tokens) == [kind |-> "any", tokens |-> tokens]
Seqn(parts) == [kind |-> "seq", parts |-> parts]
Alts(parts) == [kind |-> "alt", parts |-> parts]
Many(body) == [kind |-> "many", body |-> body]
Opt(body) == Alts(<<Seqn(<<>>), body>>)
Word(symbols) == Seqn([i \in DOMAIN symbols |-> Sym(symbols[i])])
Choice(symbols) == Alts([i \in DOMAIN symbols |-> Sym(symbols[i])])
Some(body) == Seqn(<<body, Many(body)>>)
ListOf(body) == Seqn(<<body, Many(Seqn(<<Sym("COMMA"), body>>))>>)
=============================================================================
