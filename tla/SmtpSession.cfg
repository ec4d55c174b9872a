SPECIFICATION Spec
CONSTANTS
  p = p  q = q  a = a  b = b  c = c  r = r  l1 = l1  l2 = l2  l3 = l3
  Session = {p, q}
  Recipient = {r}
  Outsider = {a, b, c}
  Letter = {l1, l2, l3}
  NoLetter = NoLetter
  BadNumber = BadNumber
  NoDash = NoDash
  Scenarios <- Twice
INVARIANT AllAreInFirst
