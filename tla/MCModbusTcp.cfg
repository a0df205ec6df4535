CONSTANTS
  TidMod = 2
  Units = {0, 1}
  RxCap = 2
  MaxSends = 3
  MaxConns = 2
SPECIFICATION FairSpec
INVARIANTS TypeOK WaitingIffAwaiting ConnectedIffOpen NoStaleBytes MatchIsOwn
PROPERTIES ImplementsRequestReply NeverStuck
