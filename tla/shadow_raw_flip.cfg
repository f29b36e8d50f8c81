SPECIFICATION Spec
CONSTANTS
  lib = lib
  style = style
  page = page
  sibling = sibling
  rawModule = rawModule
  doc = doc
  note = note
  text = text
  glob = glob
  raw = raw
  include = include
  broken = broken
  red = red
  odd = odd
  redPrint = redPrint
  Absent = Absent
  Dir = Dir
  Link = Link
  Garbage = Garbage
  None = None
  Extra = {rawModule}
  Fingerprint <- Prints
  Generated <- RawModules
  Ref <- Links
  Above <- BelowLib
  Kind <- Kinds
  Texts = {text, glob, raw, include, broken}
  TextsOf <- TextsAt
  Globs = {glob, broken}
  Broken = {broken}
  EditsInWindow = {}
  FlipWipeFails = FALSE
  Paths = {page, lib}
  Dirs = {}
  WalkOrder <- RawWalk
  MirrorOrder <- NoMirror
  Projects <- RawTree
  Settings = {red}
  Modes = {FALSE}
  Movable = {}
  Preserving = {}
  MaxEdits = 3
INVARIANTS
  EsbuildReadsFresh
