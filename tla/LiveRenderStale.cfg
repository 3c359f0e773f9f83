SPECIFICATION Spec
CONSTANTS
  ticker = ticker
  chat = chat
  Binding = {ticker, chat}
  MaxItems = 2
  Setting <- Superseding
INVARIANTS NoStaleInner
