SPECIFICATION Spec
CONSTANTS
  lib = lib
  style = style
  page = page
  sibling = sibling
  rawModule = rawModule
  doc = doc
  note = note
  text = text
  glob = glob
  raw = raw
  include = include
  broken = broken
  red = red
  odd = odd
  redPrint = redPrint
  Absent = Absent
  Dir = Dir
  Link = Link
  Garbage = Garbage
  None = None
  Extra = {rawModule}
  Fingerprint <- Prints
  Generated <- RawModules
  Ref <- Links
  Above <- BelowLib
  Kind <- Kinds
  Texts = {text, glob, raw, include, broken}
  TextsOf <- TextsAt
  Globs = {glob, broken}
  Broken = {broken}
  EditsInWindow = {doc}
  FlipWipeFails = FALSE
  Paths = {lib, style, sibling, doc, note}
  Dirs = {lib}
  WalkOrder <- TreeWalk
  MirrorOrder <- TreeMirror
  Projects <- BothTrees
  Settings = {red, odd}
  Modes = {TRUE, FALSE}
  Movable = {doc}
  Preserving = {doc}
  MaxEdits = 2
INVARIANTS
  WrittenIsOnDisk
  EsbuildReadsFresh
  BridgeMatchesSnapshot
PROPERTIES
  SourcesUntouched
