CONSTANTS
  Session = {s1, s2}
  Browser = {b1}
  NoMail = NoMail
  QueueCapacity = 1
  MaxMail = 2
SPECIFICATION Spec
INVARIANTS
  AllForwarded
