SPECIFICATION MCSpec
CONSTANTS
  tabA = tabA
  tabB = tabB
  Tab <- Tabs2
  Call = {1, 2}
  MaxCall <- OneCall
  Copy = {1, 2}
  MaxMishaps = 2
  pageOld = pageOld
  pageMid = pageMid
  pageMid2 = pageMid2
  pageNew = pageNew
  Page <- Pages4
  Version <- Versions
  Element = {"modal", "content", "button"}
  Modal = "modal"
  CloseButton = "button"
  ParentOf <- ModalParent
  MaxClicks = 1
  Footer = {1, 2}
  DiscoverCount = 2
CHECK_DEADLOCK FALSE
INVARIANTS
  NoNeedlessRefresh
  NobodyForgotten
  PlaysOnOwnSchema
PROPERTIES
  Settles
  RequestsEnd
  MenuSettles
  FooterSettles
