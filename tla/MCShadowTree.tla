----------------------------- MODULE MCShadowTree -----------------------------
(***************************************************************************)
(* Instances of ShadowTree for TLC.                                        *)
(***************************************************************************)
EXTENDS ShadowTree

CONSTANTS
  lib, style,          \* a path that is a file or a directory, a stylesheet below
  page, sibling,       \* importers of the file, in the project and in a sibling package
  rawModule,           \* what is generated beside them
  doc, note,           \* a collection entry and another document that include the file
  text, glob, raw, include, broken,
  red, odd,            \* settings, of which the second has no fingerprint
  redPrint

BelowLib == [x \in Places |-> IF x = style THEN {lib} ELSE {}]
Kinds == [p \in Paths |-> CASE p = style -> "css"
                            [] p = doc -> "collection"
                            [] p = note -> "content"
                            [] OTHER -> "source"]
Links == [t \in Texts |-> IF t \in {raw, include} THEN lib ELSE None]
RawModules == [p \in Paths |-> [q \in Paths |-> rawModule]]
Prints == [s \in Settings \cup {None} |-> IF s = red THEN redPrint ELSE None]

TextsAt ==
    [p \in Paths |-> CASE p = lib -> {text, glob}
                       [] p = style -> {text}
                       [] p = page -> {raw, text}
                       [] p = sibling -> {raw}
                       [] p = doc -> {include, broken}
                       [] p = note -> {include}]

\* The whole tree, with a library file or a library directory at first.
TreeWalk == <<lib, style, doc, note>>
TreeMirror == <<sibling>>
FileTree == [p \in Paths |-> CASE p = lib -> text [] p = style -> Absent
                               [] p = sibling -> raw [] OTHER -> include]
DirTree == [p \in Paths |-> CASE p = lib -> Dir [] p = style -> text
                              [] p = sibling -> raw [] OTHER -> include]
BothTrees == {FileTree, DirTree}

\* A page that imports a file with a macro as ?raw.
RawWalk == <<page, lib>>
NoMirror == <<>>
RawTree == {[p \in Paths |-> IF p = page THEN raw ELSE glob]}
=============================================================================
