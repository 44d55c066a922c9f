SPECIFICATION Spec
CONSTANTS
  Issuer = {"Admin", "Ops", "Intern"}
  Tools <- MCTools
  ToolLists <- MCToolLists
  Edge <- MCEdge
  Envelopes <- MCEnvelopes
  Fnv <- MCFnv
  Keyring <- MCKeyring
  None = None
  Infer <- MCInfer
  Checker <- DecidePure
  MaxDecls = 3
  MaxCredentials = 2
INVARIANT MisdelegationOnlyNarrows
CHECK_DEADLOCK FALSE
