SPECIFICATION Spec
CONSTANTS
  r1 = r1
  r2 = r2
  r3 = r3
  a1 = a1
  a2 = a2
  b1 = b1
  c1 = c1
  B = B
  MAIN = MAIN
  None = None
  Rule = {r1, r2, r3}
  Match = {a1, a2, b1, c1}
  Module = {MAIN, B}
  RuleOf <- MCRuleOf
  ModuleOf <- MCModuleOf
  Complexity <- MCComplexity
  Basis <- MCBasis
  AutoFocus = {r3}
  Dynamic = {r1}
  Salience <- MCSalience
  Strategy = {"depth", "breadth", "lex", "mea", "complexity", "simplicity", "random"}
  Evaluation = {"when-defined", "every-cycle"}
  GenRand <- MCGenRand
  Limit <- MCLimit
  MaxTag = 3
  MaxFocus = 2
INVARIANTS
  TypeOK
  AgendaOrdered
  GroupsDelimit
  MarkersAgree
PROPERTIES
  Refraction
  BestFired
