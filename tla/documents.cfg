SPECIFICATION FairSpec
CONSTANTS
  w1 = w1
  w2 = w2
  r1 = r1
  r2 = r2
  d1 = d1
  upload = upload
  new1 = new1
  new2 = new2
  Workers = {w1, w2}
  Replacers = {r1}
  Deleters = {d1}
  Host <- ServedByW1
  Upload = upload
  New <- NewContents
  NoWorker = NoWorker
  NoContent = NoContent
  NoDocument = NoDocument
  MaxRetries = 1
  MaxOverlap = 1
  MaxMishaps = 1
INVARIANTS
  
  TypeOK
  

  
CHECK_DEADLOCK FALSE
