---------------------------- MODULE MCPushParser ----------------------------
(* Documents for PushParser, in families of constructs that interact.      *)
EXTENDS PushParser

CONSTANT MaxTokens  \* constructs that vary in a document

Tok(k, n, w) == [i \in 1..w |-> Unit(k, n, w, FALSE)]

X == Tok("x", "", 1)
RB == Tok("rb", "", 1)
GT == Tok("gt", "", 1)
CR == Tok("cr", "", 1)
LF == Tok("lf", "", 1)
OpenA == Tok("open", "a", 3)
EndA == Tok("etag", "a", 3)
EndB == Tok("etag", "b", 3)
Empty == Tok("empty", "b", 3)
NsEmpty == [i \in 1..3 |-> Unit("empty", "b", 3, TRUE)]
Broken == Tok("broken", "a", 3)
Pi == Tok("pi", "", 3)
Decl == Tok("decl", "", 3)
Comment == Tok("comment", "", 3)
Cdata == Tok("cdata", "", 3)
Ref == Tok("ref", "", 2)
Dtd == Tok("dtd", "", 3)
DtdSubset == Tok("dtdopen", "", 3) \o Tok("subset", "", 2)

(* All sequences of up to n of the constructs.                             *)
Family(before, toks, n, after) ==
  {before \o FlattenSeq(s) \o after : s \in SeqOf(toks, n)}

(* Prologs and epilogs, element content, and character data with brackets  *)
(* and line ends, longer than a big buffer.                                *)
MCDocs ==
  Family(<<>>, {Decl, LF, Pi, Dtd, DtdSubset, NsEmpty, X}, MaxTokens, <<>>)
    \cup Family(OpenA, {X, Comment, Ref, OpenA, EndA, EndB}, MaxTokens, EndA)
    \cup Family(OpenA, {Cdata, Empty, Broken, Dtd, Decl}, MaxTokens - 1, EndA)
    \cup Family(OpenA, {X, RB, GT, CR, LF}, MaxTokens + 1, EndA)

(* Text with line ends.                                                    *)
MCTextDocs == Family(OpenA, {X, CR, LF}, MaxTokens + 1, EndA)

(* Elements with a namespace error, and what may follow them.              *)
MCNsDocs == Family(NsEmpty, {LF, Pi, X, Empty}, MaxTokens, <<>>)
=============================================================================
